---- MODULE Spec2Model ----
(***************************************************************************)
(* Greenlight JSON API: the optimistic-concurrency update protocol of the  *)
(* movies table (internal/data/movies.go, cmd/api/movies.go) and the       *)
(* per-client rate limiter with its sweep goroutine (cmd/api/middleware.go,*)
(* cmd/api/server.go).                                                     *)
(***************************************************************************)
EXTENDS Integers, Sequences, FiniteSets, TLC

(***************************************************************************)
(* Bounds of the model.                                                    *)
(***************************************************************************)
\* number of rows the bigserial id sequence may hand out
MaxID == 1
\* an update is only started from a row whose version is below this cap
MaxVersion == 3

\* clock ticks per refill interval 1/rps of the token bucket
TicksPerToken == 2
\* the clock advances tick by tick up to this many ticks, then by minutes
MaxTicks == 2
\* the clock advances by whole minutes this many times
MaxMinutes == 4
\* the token clock runs from 0 to MaxClock
MaxClock == 2
\* TokenModel.New is called at most MaxIssues times
MaxIssues == 1
\* the tokens table holds at most MaxStored rows when the process starts
MaxStored == 1
\* seconds a call without deadline is followed while the database is silent
MaxWait == 4
\* a Permissions slice holds at most MaxPermissions codes
MaxPermissions == 2
\* the slow setting of -limiter-rps: one request in SlowMinutes minutes
SlowMinutes == 2
\* the admitted requests of a key are followed up to MaxAdmits
MaxAdmits == 7
\* app.background is called at most MaxTasks times
MaxTasks == 3

\* request goroutines serving the movie handlers
Reqs == {"r1", "r2"}
\* request goroutines passing through the rateLimit middleware
Conns == {"c1", "c2"}
\* the hosts of the remote addresses
IPs == {"ip1", "ip2"}
\* a remote address net.SplitHostPort cannot split
BadAddr == "bad address"

(***************************************************************************)
(* Program constants.                                                      *)
(***************************************************************************)
\* DEFAULT of the movies.version column
InitialVersion == 1

\* defaults of the -limiter-rps and -limiter-burst flags
LimiterRPS == 2
LimiterBurst == 4
\* time.Sleep(time.Minute) and 3*time.Minute of the sweep goroutine
SweepMinutes == 1
IdleMinutes == 3

StatusOK == 200
StatusCreated == 201
StatusBadRequest == 400
StatusNotFound == 404
StatusConflict == 409
StatusUnprocessableEntity == 422
StatusInternalServerError == 500

\* the error values of internal/data
NoErr == "nil"
ErrRecordNotFound == "record not found"
ErrEditConflict == "edit conflict"
\* any other error handed back by database/sql (connection lost, timeout, ...)
ErrStore == "store error"

\* the fields of the input struct of the movie handlers
Fields == {"title", "year", "runtime", "genres"}

\* what can go wrong around a handler: nothing, readJSON rejects the body,
\* the database call returns an error other than sql.ErrNoRows
Faults == {"none", "body", "db"}

Titles == {"", "a", "b"}
Years == {0, 2000}
Runtimes == {100}
GenreLists == {<<"drama">>}

\* a table slot that holds no row
NoRow == [title |-> "", year |-> 0, runtime |-> 0, genres |-> <<>>, version |-> 0]
\* the zero value of a Movie
NoMovie == [id |-> 0, title |-> "", year |-> 0, runtime |-> 0, genres |-> <<>>, version |-> 0]

VARIABLES
    movies,     \* the movies table: id -> row, NoRow where no row is stored
    nextID,     \* next value of the bigserial id sequence
    pc,         \* per request goroutine: "idle" or "got" (between Get and Update)
    movie,      \* per request goroutine: the *Movie the update handler holds
    committed,  \* history: per id, the expected versions of the updates that returned nil
    last,       \* history: the handler that finished last (call, table before, result)
    hosts,      \* the hosts that send requests, fixed in the initial state
    now,        \* the clock, in ticks
    enabled,    \* app.config.limiter.enabled
    clients,    \* the clients map of rateLimit: ip -> [tokens, last, lastSeen]
    mu,         \* the mutex of rateLimit: its holder, or Unlocked
    cpc,        \* per connection goroutine: its position in the rateLimit handler
    cip,        \* per connection goroutine: the ip of the request
    out,        \* history: the outcome of the request that finished last
    swpc,       \* position of the sweep goroutine
    wakeAt,     \* end of the time.Sleep of the sweep goroutine
    todo,       \* keys the range loop of the sweep has still to visit
    sweepStart, \* history: clock when the running sweep took the mutex
    hist,       \* history: per ip, the admissions since the entry was created
    tdb,        \* the token tables of the database: table name -> set of rows
    clock,      \* time.Now() of the token code
    issues,     \* number of calls of TokenModel.New so far
    fresh,      \* history: what TokenModel.New returned in the step before
    revoked,    \* history: the hashes of the rows DeleteAllForUser was called
                \* to delete while the database connection worked
    tlast,      \* history: the last token operation, its inputs and results
    users,      \* the users table: id -> the activated column
    pdb,        \* the permission tables of the database: table name -> rows
    glast,      \* history: the last request through the middleware chain, or
                \* the last call of AddForUser
    scall,      \* the call of a method of the data models that is under way
    incl,       \* a permissions slice, a code, and the answer of Include
    rp,         \* a request through recoverPanic: what its handler does, and
                \* the response when the request has been served
    bg,         \* app.wg and the calls of app.background: the counter, the
                \* position of each task, the errors logged, the waiter
    bk,         \* one key of the rate limiter under a configuration of the
                \* flags: the clock, the entry of the key, the next sweep and
                \* the times of the admitted requests
    mainpc,     \* position of server() in the main goroutine
    sigpc,      \* position of the signal goroutine of server()
    srvErr      \* the error server() returned, the result of srv.Shutdown

movieVars == <<movies, nextID, pc, movie, committed, last>>

limiterVars == <<hosts, now, enabled, clients, mu, cpc, cip, out, swpc, wakeAt,
                 todo, sweepStart, hist>>

serverVars == <<mainpc, sigpc, srvErr>>

tokenVars == <<tdb, clock, issues, fresh, revoked, tlast>>

\* the variables of the permission gates, and the variables beside them
permVars == <<users, pdb, glast, scall, incl>>
auxVars == <<bk, rp, bg>>
gateVars == <<permVars, auxVars>>

vars == <<movieVars, limiterVars, serverVars, tokenVars, gateVars>>

IDs == 1 .. MaxID

\* the record of a handler that made no Movies.Update call
NoCall(op, code) ==
    [op |-> op, status |-> code, read |-> NoMovie, pre |-> NoRow, post |-> NoRow,
     err |-> NoErr, version |-> 0, stmts |-> 0, tableChanged |-> FALSE]

(***************************************************************************)
(* internal/data: ValidateMovie and the MovieModel statements.             *)
(***************************************************************************)
ValidateMovie(m) ==
    /\ m.title # ""
    /\ m.year # 0
    /\ m.year > 1888
    /\ m.runtime # 0
    /\ m.runtime > 0
    /\ Len(m.genres) >= 1
    /\ Len(m.genres) <= 5

\* as InsertRow, with a version column that defaults to 0
InsertRowVersionZero(m) ==
    [title |-> m.title, year |-> m.year, runtime |-> m.runtime,
     genres |-> m.genres, version |-> 0]

\* the row the INSERT stores: version takes the column default
InsertRow(m) ==
    [title |-> m.title, year |-> m.year, runtime |-> m.runtime,
     genres |-> m.genres, version |-> InitialVersion]

\* MovieModel.Insert: result table, the movie with the generated fields, error
MovieInsert(tbl, nid, m, dbok) ==
    IF ~dbok
    THEN [tbl |-> tbl, movie |-> m, err |-> ErrStore]
    ELSE [tbl |-> [tbl EXCEPT ![nid] = InsertRow(m)],
          movie |-> [m EXCEPT !.id = nid, !.version = InsertRow(m).version],
          err |-> NoErr]

\* MovieModel.Get
MovieGet(tbl, id, dbok) ==
    IF id < 1
    THEN [movie |-> NoMovie, err |-> ErrRecordNotFound]
    ELSE IF ~dbok
    THEN [movie |-> NoMovie, err |-> ErrStore]
    ELSE IF id \notin DOMAIN tbl \/ tbl[id] = NoRow
    THEN [movie |-> NoMovie, err |-> ErrRecordNotFound]
    ELSE [movie |-> [id |-> id, title |-> tbl[id].title, year |-> tbl[id].year,
                     runtime |-> tbl[id].runtime, genres |-> tbl[id].genres,
                     version |-> tbl[id].version],
          err |-> NoErr]

\* as UpdateWhere, without the version clause: WHERE id = $5
UpdateWhereIdOnly(tbl, id, version) ==
    /\ id \in DOMAIN tbl
    /\ tbl[id] # NoRow

\* WHERE id = $5 AND version = $6
UpdateWhere(tbl, id, version) ==
    /\ id \in DOMAIN tbl
    /\ tbl[id] # NoRow
    /\ tbl[id].version = version

\* as UpdateSetVersion, with a SET list that leaves the version alone
UpdateSetVersionSame(version) == version

\* SET ..., version = version + 1
UpdateSetVersion(version) == version + 1

\* as MovieUpdate, without the Scan of the returned version into the movie
MovieUpdateNoScan(tbl, m, dbok) ==
    IF ~dbok
    THEN [tbl |-> tbl, movie |-> m, err |-> ErrStore, stmts |-> 1]
    ELSE IF UpdateWhere(tbl, m.id, m.version)
    THEN LET row == [title |-> m.title, year |-> m.year, runtime |-> m.runtime,
                     genres |-> m.genres,
                     version |-> UpdateSetVersion(tbl[m.id].version)]
         IN [tbl |-> [tbl EXCEPT ![m.id] = row], movie |-> m,
             err |-> NoErr, stmts |-> 1]
    ELSE [tbl |-> tbl, movie |-> m, err |-> ErrEditConflict, stmts |-> 1]

\* as MovieUpdate, retrying a statement that matched no row with the version
\* that is stored now
MovieUpdateRetry(tbl, m, dbok) ==
    IF ~dbok
    THEN [tbl |-> tbl, movie |-> m, err |-> ErrStore, stmts |-> 1]
    ELSE IF UpdateWhere(tbl, m.id, m.version)
    THEN LET row == [title |-> m.title, year |-> m.year, runtime |-> m.runtime,
                     genres |-> m.genres,
                     version |-> UpdateSetVersion(tbl[m.id].version)]
         IN [tbl |-> [tbl EXCEPT ![m.id] = row],
             movie |-> [m EXCEPT !.version = row.version],
             err |-> NoErr, stmts |-> 1]
    ELSE IF m.id \in DOMAIN tbl /\ tbl[m.id] # NoRow
    THEN LET row == [title |-> m.title, year |-> m.year, runtime |-> m.runtime,
                     genres |-> m.genres,
                     version |-> UpdateSetVersion(tbl[m.id].version)]
         IN [tbl |-> [tbl EXCEPT ![m.id] = row],
             movie |-> [m EXCEPT !.version = row.version],
             err |-> NoErr, stmts |-> 2]
    ELSE [tbl |-> tbl, movie |-> m, err |-> ErrEditConflict, stmts |-> 2]

\* MovieModel.Update: one conditional UPDATE ... RETURNING version
MovieUpdate(tbl, m, dbok) ==
    IF ~dbok
    THEN [tbl |-> tbl, movie |-> m, err |-> ErrStore, stmts |-> 1]
    ELSE IF UpdateWhere(tbl, m.id, m.version)
    THEN LET row == [title |-> m.title, year |-> m.year, runtime |-> m.runtime,
                     genres |-> m.genres,
                     version |-> UpdateSetVersion(tbl[m.id].version)]
         IN [tbl |-> [tbl EXCEPT ![m.id] = row],
             movie |-> [m EXCEPT !.version = row.version],
             err |-> NoErr, stmts |-> 1]
    ELSE [tbl |-> tbl, movie |-> m, err |-> ErrEditConflict, stmts |-> 1]

\* as MovieDelete, without the test of result.RowsAffected()
MovieDeleteNoRowCount(tbl, id, dbok) ==
    IF id < 1
    THEN [tbl |-> tbl, err |-> ErrRecordNotFound]
    ELSE IF ~dbok
    THEN [tbl |-> tbl, err |-> ErrStore]
    ELSE IF id \notin DOMAIN tbl \/ tbl[id] = NoRow
    THEN [tbl |-> tbl, err |-> NoErr]
    ELSE [tbl |-> [tbl EXCEPT ![id] = NoRow], err |-> NoErr]

\* MovieModel.Delete
MovieDelete(tbl, id, dbok) ==
    IF id < 1
    THEN [tbl |-> tbl, err |-> ErrRecordNotFound]
    ELSE IF ~dbok
    THEN [tbl |-> tbl, err |-> ErrStore]
    ELSE IF id \notin DOMAIN tbl \/ tbl[id] = NoRow
    THEN [tbl |-> tbl, err |-> ErrRecordNotFound]
    ELSE [tbl |-> [tbl EXCEPT ![id] = NoRow], err |-> NoErr]

(***************************************************************************)
(* cmd/api: helpers and the movie handlers.                                *)
(***************************************************************************)
\* readIDParam: an error for an id below 1
ReadIDParamOK(id) == id >= 1

\* as ApplyInput, copying every field of the input, the absent ones too
ApplyInputAll(m, input) ==
    [m EXCEPT !.title = input.title, !.year = input.year,
              !.runtime = input.runtime, !.genres = input.genres]

\* the PATCH of updateMovieHandler: absent fields keep the value read
ApplyInput(m, input) ==
    [m EXCEPT !.title = IF "title" \in input.has THEN input.title ELSE @,
              !.year = IF "year" \in input.has THEN input.year ELSE @,
              !.runtime = IF "runtime" \in input.has THEN input.runtime ELSE @,
              !.genres = IF "genres" \in input.has THEN input.genres ELSE @]

\* as UpdateErrorStatus, without the case for ErrEditConflict
UpdateErrorStatusServerError(err) == StatusInternalServerError

\* the switch on the error of Movies.Update in updateMovieHandler
UpdateErrorStatus(err) ==
    IF err = ErrEditConflict THEN StatusConflict ELSE StatusInternalServerError

\* the switch on the error of Movies.Get / Movies.Delete
LookupErrorStatus(err) ==
    IF err = ErrRecordNotFound THEN StatusNotFound ELSE StatusInternalServerError

\* bodies of POST /v1/movies
CreateInputs ==
    [title : Titles, year : Years, runtime : Runtimes, genres : GenreLists]

\* bodies of PATCH /v1/movies/:id; has: the keys present in the body (non-nil
\* pointers, non-nil slice); a key that is not present carries the zero value
UpdateInputs ==
    {b \in [has : SUBSET {"title", "year"} \cup {Fields}, title : Titles, year : Years,
            runtime : Runtimes \cup {0}, genres : GenreLists \cup {<<>>}] :
        /\ "title" \notin b.has => b.title = ""
        /\ "year" \notin b.has => b.year = 0
        /\ "runtime" \notin b.has <=> b.runtime = 0
        /\ "genres" \notin b.has <=> b.genres = <<>>}

InitMovies ==
    /\ movies = [i \in IDs |-> NoRow]
    /\ nextID = 1
    /\ pc = [r \in Reqs |-> "idle"]
    /\ movie = [r \in Reqs |-> NoMovie]
    /\ committed = [i \in IDs |-> <<>>]
    /\ last = NoCall("none", 0)

\* createMovieHandler
CreateMovie(r) ==
    /\ pc[r] = "idle"
    /\ \E fault \in Faults :
         IF fault = "body"
         THEN /\ last' = NoCall("create", StatusBadRequest)
              /\ UNCHANGED <<movies, nextID>>
         ELSE \E body \in CreateInputs :
              LET m == [id |-> 0, title |-> body.title, year |-> body.year,
                        runtime |-> body.runtime, genres |-> body.genres,
                        version |-> 0]
              IN IF ~ValidateMovie(m)
                 THEN /\ last' = NoCall("create", StatusUnprocessableEntity)
                      /\ UNCHANGED <<movies, nextID>>
                 ELSE /\ nextID <= MaxID
                      /\ LET res == MovieInsert(movies, nextID, m, fault # "db")
                         IN /\ movies' = res.tbl
                            /\ nextID' = IF res.err = NoErr THEN nextID + 1
                                         ELSE nextID
                            /\ last' = NoCall("create",
                                 IF res.err = NoErr THEN StatusCreated
                                 ELSE StatusInternalServerError)
    /\ UNCHANGED <<pc, movie, committed>>
    /\ UNCHANGED <<limiterVars, serverVars, tokenVars, gateVars>>

\* showMovieHandler
ShowMovie(r) ==
    /\ pc[r] = "idle"
    /\ \E id \in 0 .. MaxID, dbok \in BOOLEAN :
         IF ~ReadIDParamOK(id)
         THEN last' = NoCall("show", StatusNotFound)
         ELSE LET res == MovieGet(movies, id, dbok)
              IN last' = NoCall("show",
                   IF res.err = NoErr THEN StatusOK ELSE LookupErrorStatus(res.err))
    /\ UNCHANGED <<movies, nextID, pc, movie, committed>>
    /\ UNCHANGED <<limiterVars, serverVars, tokenVars, gateVars>>

\* updateMovieHandler up to and including Movies.Get
UpdateMovieGet(r) ==
    /\ pc[r] = "idle"
    /\ \E id \in 0 .. MaxID, dbok \in BOOLEAN :
         IF ~ReadIDParamOK(id)
         THEN /\ last' = NoCall("update", StatusNotFound)
              /\ UNCHANGED <<pc, movie>>
         ELSE LET res == MovieGet(movies, id, dbok)
              IN IF res.err # NoErr
                 THEN /\ last' = NoCall("update", LookupErrorStatus(res.err))
                      /\ UNCHANGED <<pc, movie>>
                 ELSE /\ res.movie.version < MaxVersion
                      /\ pc' = [pc EXCEPT ![r] = "got"]
                      /\ movie' = [movie EXCEPT ![r] = res.movie]
                      /\ UNCHANGED last
    /\ UNCHANGED <<movies, nextID, committed>>
    /\ UNCHANGED <<limiterVars, serverVars, tokenVars, gateVars>>

\* updateMovieHandler from readJSON to the response
UpdateMovieCommit(r) ==
    /\ pc[r] = "got"
    /\ pc' = [pc EXCEPT ![r] = "idle"]
    /\ movie' = [movie EXCEPT ![r] = NoMovie]
    /\ \E fault \in Faults :
         IF fault = "body"
         THEN /\ last' = NoCall("update", StatusBadRequest)
              /\ UNCHANGED <<movies, committed>>
         ELSE \E body \in UpdateInputs :
              LET m == ApplyInput(movie[r], body)
              IN IF ~ValidateMovie(m)
                 THEN /\ last' = NoCall("update", StatusUnprocessableEntity)
                      /\ UNCHANGED <<movies, committed>>
                 ELSE LET res == MovieUpdate(movies, m, fault # "db")
                      IN /\ movies' = res.tbl
                         /\ committed' =
                              IF res.err = NoErr
                              THEN [committed EXCEPT ![m.id] = Append(@, m.version)]
                              ELSE committed
                         /\ last' = [op |-> "update",
                                     status |-> IF res.err = NoErr THEN StatusOK
                                                ELSE UpdateErrorStatus(res.err),
                                     read |-> movie[r], pre |-> movies[m.id],
                                     post |-> res.tbl[m.id], err |-> res.err,
                                     version |-> res.movie.version,
                                     stmts |-> res.stmts,
                                     tableChanged |-> res.tbl # movies]
    /\ UNCHANGED nextID
    /\ UNCHANGED <<limiterVars, serverVars, tokenVars, gateVars>>

\* deleteMovieHandler
DeleteMovie(r) ==
    /\ pc[r] = "idle"
    /\ \E id \in 0 .. MaxID, dbok \in BOOLEAN :
         IF ~ReadIDParamOK(id)
         THEN /\ last' = NoCall("delete", StatusNotFound)
              /\ UNCHANGED movies
         ELSE LET res == MovieDelete(movies, id, dbok)
              IN /\ movies' = res.tbl
                 /\ last' = NoCall("delete",
                      IF res.err = NoErr THEN StatusOK ELSE LookupErrorStatus(res.err))
    /\ UNCHANGED <<nextID, pc, movie, committed>>
    /\ UNCHANGED <<limiterVars, serverVars, tokenVars, gateVars>>

(***************************************************************************)
(* The clock.  One tick is 1/(LimiterRPS * TicksPerToken) seconds, so the   *)
(* bucket refills by one bucket unit per tick and a token is TicksPerToken  *)
(* bucket units.                                                            *)
(***************************************************************************)
Second == LimiterRPS * TicksPerToken

Minute == 60 * Second

\* the zero time.Time: further in the past than any duration compared with it
ZeroTime == 0 - (IdleMinutes + 1) * Minute

Min(a, b) == IF a <= b THEN a ELSE b

(***************************************************************************)
(* golang.org/x/time/rate: the token bucket behind limiter.Allow().        *)
(***************************************************************************)
\* rate.NewLimiter(rps, burst): a full bucket
NewLimiter(burst) ==
    [burst |-> burst * TicksPerToken, tokens |-> burst * TicksPerToken,
     last |-> ZeroTime]

\* the bucket level at time t: refilled since last, capped at burst
LimiterTokensAt(lim, t) ==
    LET from == IF t < lim.last THEN t ELSE lim.last
    IN Min(lim.burst, lim.tokens + (t - from))

\* limiter.Allow() at time t: withdraw one token if there is one; a denial
\* leaves the bucket as it was
LimiterAllow(lim, t) ==
    LET tokens == LimiterTokensAt(lim, t)
    IN IF tokens >= TicksPerToken
       THEN [ok |-> TRUE,
             lim |-> [lim EXCEPT !.tokens = tokens - TicksPerToken, !.last = t]]
       ELSE [ok |-> FALSE, lim |-> lim]

(***************************************************************************)
(* cmd/api/middleware.go: rateLimit.                                       *)
(***************************************************************************)
Unlocked == "unlocked"
Sweeper == "sweep"

\* as MutexFree, for code that does not take the mutex
MutexFreeAlways(m) == TRUE

\* mu.Lock() returns only while no goroutine holds the mutex
MutexFree(m) == m = Unlocked

\* net.SplitHostPort(r.RemoteAddr)
SplitHostPortOK(addr) == addr # BadAddr

\* if _, found := clients[ip]; !found
NotFound(cl, ip) == ip \notin DOMAIN cl

\* as NewClient, with the arguments of rate.NewLimiter swapped
NewClientSwapped ==
    [limiter |-> NewLimiter(LimiterRPS), lastSeen |-> ZeroTime]

\* &client{limiter: rate.NewLimiter(rps, burst)}: lastSeen is the zero time
NewClient ==
    [limiter |-> NewLimiter(LimiterBurst), lastSeen |-> ZeroTime]

\* as SweepExpired, with time.Hour for time.Minute
SweepExpiredHours(t, lastSeen) == t - lastSeen > IdleMinutes * 60 * Minute

\* as SweepExpired, with >= for >
SweepExpiredAtLeast(t, lastSeen) == t - lastSeen >= IdleMinutes * Minute

\* time.Since(client.lastSeen) > 3*time.Minute
SweepExpired(t, lastSeen) == t - lastSeen > IdleMinutes * Minute

\* as MapSet, assigning a new map that holds the one entry
MapSetFresh(cl, ip, v) == [k \in {ip} |-> v]

\* clients[ip] = v
MapSet(cl, ip, v) ==
    [k \in DOMAIN cl \cup {ip} |-> IF k = ip THEN v ELSE cl[k]]

\* delete(clients, ip)
MapDelete(cl, ip) == [k \in DOMAIN cl \ {ip} |-> cl[k]]

\* make(map[string]*client)
EmptyMap == [k \in {} |-> NewClient]

\* history of a key: born, the clock when its entry was created; the number
\* of admissions at that instant and in all; evicted is "evicted" from the
\* sweep that deleted the key's entry to the request that creates the next
\* one, and "recreated" from then on.  The admissions are counted up to
\* 1/rps seconds after born.
NoHist == [born |-> ZeroTime, atBorn |-> 0, admits |-> 0, evicted |-> "never"]

\* the history at clock t: the count of a key is dropped once 1/rps seconds
\* have passed since its entry was created
HistAt(h, t) ==
    [i \in IPs |-> IF t > h[i].born + TicksPerToken
                   THEN [NoHist EXCEPT !.evicted = h[i].evicted]
                   ELSE h[i]]

\* the listener accepts connections until srv.Shutdown is called
Accepting == mainpc = "listen" /\ sigpc = "quit"

\* the process runs until server() has returned to main
Alive == mainpc # "returned"

\* the state of the rateLimit closure when the middleware is built
InitLimiter ==
    /\ now = 0
    /\ clients = EmptyMap
    /\ mu = Unlocked
    /\ cpc = [c \in Conns |-> "idle"]
    /\ cip = [c \in Conns |-> "ip1"]
    /\ out = "none"
    /\ swpc = "sleep"
    /\ wakeAt = SweepMinutes * Minute
    /\ todo = {}
    /\ sweepStart = 0
    /\ hist = [i \in IPs |-> NoHist]

InitServer ==
    /\ mainpc = "listen"
    /\ sigpc = "quit"
    /\ srvErr = NoErr

\* the variables of the rateLimit closure but the clock and the history
closureVars == <<clients, mu, cpc, cip, out, swpc, wakeAt, todo, sweepStart>>

\* the clock advances by one tick
Tick ==
    /\ Alive
    /\ now < MaxTicks
    /\ now' = now + 1
    /\ hist' = HistAt(hist, now')
    /\ UNCHANGED <<enabled, closureVars, serverVars>>
    /\ UNCHANGED <<movieVars, tokenVars, gateVars, hosts>>

\* the clock advances to the next full minute
TickMinute ==
    /\ Alive
    /\ now \div Minute < MaxMinutes
    /\ now' = (now \div Minute + 1) * Minute
    /\ hist' = HistAt(hist, now')
    /\ UNCHANGED <<enabled, closureVars, serverVars>>
    /\ UNCHANGED <<movieVars, tokenVars, gateVars, hosts>>

\* as RLBegin, without the check of app.config.limiter.enabled
RLBeginAlways(c) ==
    /\ Alive /\ Accepting
    /\ cpc[c] = "idle"
    /\ \E addr \in hosts \cup {BadAddr} :
         IF ~SplitHostPortOK(addr)
         THEN /\ out' = "500"
              /\ UNCHANGED <<cpc, cip>>
         ELSE /\ cpc' = [cpc EXCEPT ![c] = "lock"]
              /\ cip' = [cip EXCEPT ![c] = addr]
              /\ UNCHANGED out
    /\ UNCHANGED <<now, enabled, clients, mu, swpc, wakeAt, todo,
                   sweepStart, hist, serverVars>>
    /\ UNCHANGED <<movieVars, tokenVars, gateVars, hosts>>

\* as RLBegin, with mu.Lock() before net.SplitHostPort and no mu.Unlock()
\* before the return of the error branch
RLBeginLocksFirst(c) ==
    /\ Alive /\ Accepting
    /\ cpc[c] = "idle"
    /\ \E addr \in hosts \cup {BadAddr} :
         IF ~enabled
         THEN /\ out' = "next"
              /\ UNCHANGED <<cpc, cip, mu>>
         ELSE IF ~SplitHostPortOK(addr)
         THEN /\ MutexFree(mu)
              /\ mu' = c
              /\ out' = "500"
              /\ UNCHANGED <<cpc, cip>>
         ELSE /\ cpc' = [cpc EXCEPT ![c] = "lock"]
              /\ cip' = [cip EXCEPT ![c] = addr]
              /\ UNCHANGED <<out, mu>>
    /\ UNCHANGED <<now, enabled, clients, swpc, wakeAt, todo,
                   sweepStart, hist, serverVars>>
    /\ UNCHANGED <<movieVars, tokenVars, gateVars, hosts>>

\* rateLimit handler: the enabled check and net.SplitHostPort
RLBegin(c) ==
    /\ Alive /\ Accepting
    /\ cpc[c] = "idle"
    /\ \E addr \in hosts \cup {BadAddr} :
         IF ~enabled
         THEN /\ out' = "next"
              /\ UNCHANGED <<cpc, cip>>
         ELSE IF ~SplitHostPortOK(addr)
         THEN /\ out' = "500"
              /\ UNCHANGED <<cpc, cip>>
         ELSE /\ cpc' = [cpc EXCEPT ![c] = "lock"]
              /\ cip' = [cip EXCEPT ![c] = addr]
              /\ UNCHANGED out
    /\ UNCHANGED <<now, enabled, clients, mu, swpc, wakeAt, todo,
                   sweepStart, hist, serverVars>>
    /\ UNCHANGED <<movieVars, tokenVars, gateVars, hosts>>

\* mu.Lock()
RLLock(c) ==
    /\ Alive
    /\ cpc[c] = "lock"
    /\ MutexFree(mu)
    /\ mu' = c
    /\ cpc' = [cpc EXCEPT ![c] = "lookup"]
    /\ UNCHANGED <<now, enabled, clients, cip, out, swpc, wakeAt, todo,
                   sweepStart, hist, serverVars>>
    /\ UNCHANGED <<movieVars, tokenVars, gateVars, hosts>>

\* the lookup of the ip and the creation of a missing entry
RLLookup(c) ==
    /\ Alive
    /\ cpc[c] = "lookup"
    /\ IF NotFound(clients, cip[c])
       THEN /\ clients' = MapSet(clients, cip[c], NewClient)
            /\ hist' = [hist EXCEPT ![cip[c]] =
                          [NoHist EXCEPT !.born = now,
                                         !.evicted =
                                            IF hist[cip[c]].evicted = "never"
                                            THEN "never" ELSE "recreated"]]
       ELSE UNCHANGED <<clients, hist>>
    /\ cpc' = [cpc EXCEPT ![c] = "seen"]
    /\ UNCHANGED <<now, enabled, mu, cip, out, swpc, wakeAt, todo,
                   sweepStart, serverVars>>
    /\ UNCHANGED <<movieVars, tokenVars, gateVars, hosts>>

\* a nil *client is dereferenced: the panic unwinds to recoverPanic, which
\* answers 500; the mutex stays locked
RLPanic(c) ==
    /\ cpc' = [cpc EXCEPT ![c] = "idle"]
    /\ out' = "panic"
    /\ UNCHANGED <<clients, hist>>

\* as RLSeen, without the assignment to lastSeen
RLSeenNoStamp(c) ==
    /\ Alive
    /\ cpc[c] = "seen"
    /\ IF cip[c] \in DOMAIN clients
       THEN /\ cpc' = [cpc EXCEPT ![c] = "allow"]
            /\ UNCHANGED <<clients, out, hist>>
       ELSE RLPanic(c)
    /\ UNCHANGED <<now, enabled, mu, cip, swpc, wakeAt, todo, sweepStart,
                   serverVars>>
    /\ UNCHANGED <<movieVars, tokenVars, gateVars, hosts>>

\* clients[ip].lastSeen = time.Now()
RLSeen(c) ==
    /\ Alive
    /\ cpc[c] = "seen"
    /\ IF cip[c] \in DOMAIN clients
       THEN /\ clients' = [clients EXCEPT ![cip[c]].lastSeen = now]
            /\ cpc' = [cpc EXCEPT ![c] = "allow"]
            /\ UNCHANGED <<out, hist>>
       ELSE RLPanic(c)
    /\ UNCHANGED <<now, enabled, mu, cip, swpc, wakeAt, todo, sweepStart,
                   serverVars>>
    /\ UNCHANGED <<movieVars, tokenVars, gateVars, hosts>>

\* clients[ip].limiter.Allow()
RLAllow(c) ==
    /\ Alive
    /\ cpc[c] = "allow"
    /\ IF cip[c] \in DOMAIN clients
       THEN LET res == LimiterAllow(clients[cip[c]].limiter, now)
                h == hist[cip[c]]
            IN /\ clients' = [clients EXCEPT ![cip[c]].limiter = res.lim]
               /\ cpc' = [cpc EXCEPT ![c] = IF res.ok THEN "unlockNext"
                                            ELSE "unlockDenied"]
               /\ hist' = [hist EXCEPT ![cip[c]] =
                    IF h.born = ZeroTime \/ ~res.ok THEN h
                    ELSE [h EXCEPT !.admits = @ + 1,
                                   !.atBorn = IF now = h.born THEN @ + 1 ELSE @]]
               /\ UNCHANGED out
       ELSE RLPanic(c)
    /\ UNCHANGED <<now, enabled, mu, cip, swpc, wakeAt, todo, sweepStart,
                   serverVars>>
    /\ UNCHANGED <<movieVars, tokenVars, gateVars, hosts>>

\* as RLUnlock, with no mu.Unlock() on the branch of the denied request
RLUnlockAllowedOnly(c) ==
    /\ Alive
    /\ cpc[c] \in {"unlockNext", "unlockDenied"}
    /\ mu' = IF cpc[c] = "unlockNext" THEN Unlocked ELSE mu
    /\ cpc' = [cpc EXCEPT ![c] = IF cpc[c] = "unlockNext" THEN "next" ELSE "denied"]
    /\ cip' = [cip EXCEPT ![c] = "ip1"]
    /\ UNCHANGED <<now, enabled, clients, out, swpc, wakeAt, todo,
                   sweepStart, hist, serverVars>>
    /\ UNCHANGED <<movieVars, tokenVars, gateVars, hosts>>

\* mu.Unlock() on either branch
RLUnlock(c) ==
    /\ Alive
    /\ cpc[c] \in {"unlockNext", "unlockDenied"}
    /\ mu' = Unlocked
    /\ cpc' = [cpc EXCEPT ![c] = IF cpc[c] = "unlockNext" THEN "next" ELSE "denied"]
    /\ cip' = [cip EXCEPT ![c] = "ip1"]
    /\ UNCHANGED <<now, enabled, clients, out, swpc, wakeAt, todo,
                   sweepStart, hist, serverVars>>
    /\ UNCHANGED <<movieVars, tokenVars, gateVars, hosts>>

\* as RLRespond, without the return after rateLimitExceededResponse
RLRespondFallsThrough(c) ==
    /\ Alive
    /\ cpc[c] \in {"next", "denied"}
    /\ out' = "next"
    /\ cpc' = [cpc EXCEPT ![c] = "idle"]
    /\ UNCHANGED <<now, enabled, clients, mu, cip, swpc, wakeAt, todo,
                   sweepStart, hist, serverVars>>
    /\ UNCHANGED <<movieVars, tokenVars, gateVars, hosts>>

\* app.rateLimitExceededResponse(w, r) or next.ServeHTTP(w, r)
RLRespond(c) ==
    /\ Alive
    /\ cpc[c] \in {"next", "denied"}
    /\ out' = IF cpc[c] = "next" THEN "next" ELSE "429"
    /\ cpc' = [cpc EXCEPT ![c] = "idle"]
    /\ UNCHANGED <<now, enabled, clients, mu, cip, swpc, wakeAt, todo,
                   sweepStart, hist, serverVars>>
    /\ UNCHANGED <<movieVars, tokenVars, gateVars, hosts>>

\* sweep goroutine: time.Sleep(time.Minute) returns
SweepWake ==
    /\ Alive
    /\ swpc = "sleep"
    /\ now >= wakeAt
    /\ swpc' = "lock"
    /\ wakeAt' = 0
    /\ UNCHANGED <<now, enabled, clients, mu, cpc, cip, out, todo,
                   sweepStart, hist, serverVars>>
    /\ UNCHANGED <<movieVars, tokenVars, gateVars, hosts>>

\* sweep goroutine: mu.Lock() and the start of the range loop
SweepLock ==
    /\ Alive
    /\ swpc = "lock"
    /\ MutexFree(mu)
    /\ mu' = Sweeper
    /\ swpc' = "scan"
    /\ todo' = DOMAIN clients
    /\ sweepStart' = now
    /\ UNCHANGED <<now, enabled, clients, cpc, cip, out, wakeAt, hist,
                   serverVars>>
    /\ UNCHANGED <<movieVars, tokenVars, gateVars, hosts>>

\* sweep goroutine: one iteration of the range loop
SweepVisit ==
    /\ Alive
    /\ swpc = "scan"
    /\ \E ip \in todo :
         /\ todo' = todo \ {ip}
         /\ IF ip \in DOMAIN clients /\ SweepExpired(now, clients[ip].lastSeen)
            THEN /\ clients' = MapDelete(clients, ip)
                 /\ hist' = [hist EXCEPT ![ip] = [NoHist EXCEPT !.evicted = "evicted"]]
            ELSE UNCHANGED <<clients, hist>>
    /\ UNCHANGED <<now, enabled, mu, cpc, cip, out, swpc, wakeAt,
                   sweepStart, serverVars>>
    /\ UNCHANGED <<movieVars, tokenVars, gateVars, hosts>>

\* sweep goroutine: mu.Unlock() after the loop
SweepUnlock ==
    /\ Alive
    /\ swpc = "scan"
    /\ todo = {}
    /\ mu' = Unlocked
    /\ swpc' = "loop"
    /\ sweepStart' = 0
    /\ UNCHANGED <<now, enabled, clients, cpc, cip, out, wakeAt, todo,
                   hist, serverVars>>
    /\ UNCHANGED <<movieVars, tokenVars, gateVars, hosts>>

\* sweep goroutine: back to the head of for { time.Sleep(time.Minute) ... }
SweepSleep ==
    /\ Alive
    /\ swpc = "loop"
    /\ swpc' = "sleep"
    /\ wakeAt' = now + SweepMinutes * Minute
    /\ UNCHANGED <<now, enabled, clients, mu, cpc, cip, out, todo,
                   sweepStart, hist, serverVars>>
    /\ UNCHANGED <<movieVars, tokenVars, gateVars, hosts>>

(***************************************************************************)
(* cmd/api/server.go: server().                                            *)
(***************************************************************************)
ErrListen == "listen error"
ErrDeadlineExceeded == "context deadline exceeded"

\* server() has returned and main returns or calls os.Exit(1): the process
\* is gone, with the closure of rateLimit; swpc keeps where the sweep
\* goroutine was when server() returned
ProcessExit ==
    /\ now' = 0
    /\ clients' = EmptyMap
    /\ mu' = Unlocked
    /\ cpc' = [c \in Conns |-> "idle"]
    /\ cip' = [c \in Conns |-> "ip1"]
    /\ out' = "none"
    /\ wakeAt' = 0
    /\ todo' = {}
    /\ sweepStart' = 0
    /\ hist' = [i \in IPs |-> NoHist]
    /\ UNCHANGED <<enabled, swpc>>

\* signal goroutine: s := <-quit, then srv.Shutdown(ctx) is called
CatchSignal ==
    /\ Alive
    /\ sigpc = "quit"
    /\ sigpc' = "shutdown"
    /\ UNCHANGED <<limiterVars, mainpc, srvErr>>
    /\ UNCHANGED <<movieVars, tokenVars, gateVars, hosts>>

\* main goroutine: srv.ListenAndServe() fails on its own; server() returns
ListenFails ==
    /\ mainpc = "listen"
    /\ sigpc = "quit"
    /\ mainpc' = "returned"
    /\ srvErr' = ErrListen
    /\ ProcessExit
    /\ UNCHANGED sigpc
    /\ UNCHANGED <<movieVars, tokenVars, gateVars, hosts>>

\* main goroutine: srv.ListenAndServe() returns http.ErrServerClosed
ListenClosed ==
    /\ mainpc = "listen"
    /\ sigpc # "quit"
    /\ mainpc' = "wait"
    /\ UNCHANGED <<limiterVars, sigpc, srvErr>>
    /\ UNCHANGED <<movieVars, tokenVars, gateVars, hosts>>

\* signal goroutine: srv.Shutdown(ctx) returns: nil once no request is in
\* flight, the context error if the 30 seconds pass before that
ShutdownReturns ==
    /\ Alive
    /\ sigpc = "shutdown"
    /\ \/ /\ \A c \in Conns : cpc[c] = "idle"
          /\ srvErr' = NoErr
       \/ /\ \E c \in Conns : cpc[c] # "idle"
          /\ srvErr' = ErrDeadlineExceeded
    /\ sigpc' = "send"
    /\ UNCHANGED <<limiterVars, mainpc>>
    /\ UNCHANGED <<movieVars, tokenVars, gateVars, hosts>>

\* server() returning nil whatever srv.Shutdown handed to the channel
ServerReturnsNil ==
    /\ mainpc = "wait"
    /\ sigpc = "send"
    /\ mainpc' = "returned"
    /\ sigpc' = "done"
    /\ srvErr' = NoErr
    /\ ProcessExit
    /\ UNCHANGED <<movieVars, tokenVars, gateVars, hosts>>

\* shutdownError <- ... meets err = <-shutdownError; server() returns
ServerReturns ==
    /\ mainpc = "wait"
    /\ sigpc = "send"
    /\ mainpc' = "returned"
    /\ sigpc' = "done"
    /\ ProcessExit
    /\ UNCHANGED srvErr
    /\ UNCHANGED <<movieVars, tokenVars, gateVars, hosts>>

(***************************************************************************)
(* internal/data/tokens.go and the authenticate middleware.  A string is   *)
(* a record: text names its contents, len is its length in bytes, base32   *)
(* says whether all its bytes are of the base-32 alphabet.                 *)
(***************************************************************************)
ScopeActivation == "activation"
ScopeAuthentication == "authentication"
Scopes == {ScopeActivation, ScopeAuthentication}

UserIDs == {1, 2}
\* data.AnonymousUser
AnonymousUser == 0
TTLs == {1}

\* make([]byte, 16)
RandomBytes == 16
\* len(tokenPlainText) == 26
TokenLength == 26

\* the length of base32.StdEncoding.WithPadding(base32.NoPadding) of n bytes
EncodedLen(n) == (n * 8 + 4) \div 5

Word(text, len, base32) == [text |-> text, len |-> len, base32 |-> base32]
EmptyWord == Word("", 0, TRUE)
Space == Word(" ", 1, FALSE)
Bearer == Word("Bearer", 6, FALSE)
Basic == Word("Basic", 5, FALSE)

\* what rand.Read and the encoding can produce
RandWords == {Word("A", EncodedLen(RandomBytes), TRUE),
              Word("B", EncodedLen(RandomBytes), TRUE)}
\* a token cut short, and 26 bytes that are no base-32 text
ShortWord == Word("S", 10, TRUE)
OddWord == Word("O", 26, FALSE)
TokenWords == RandWords \cup {ShortWord, OddWord}

\* sha256.Sum256([]byte(plaintext)): 32 bytes, one digest per text
Sha256(w) ==
    [digest |-> ("A" :> "d-559a" @@ "B" :> "d-df7e" @@ "S" :> "d-043a"
                 @@ "O" :> "d-c4a2" @@ "" :> "d-e3b0")[w.text],
     len |-> 32]

\* the values of the Authorization header: a sequence of words and spaces;
\* the empty sequence when the header is not set
Headers ==
    {<<>>, <<Bearer>>, <<Bearer, Space>>}
    \cup {<<Bearer, Space, w>> : w \in TokenWords}
    \cup {<<Basic, Space, Word("A", EncodedLen(RandomBytes), TRUE)>>}
    \cup {<<Bearer, Space, w, Space, w>> : w \in RandWords}

\* strings.Split(h, " "), cur being the part read so far
RECURSIVE SplitSpace(_, _)
SplitSpace(h, cur) ==
    IF h = <<>> THEN <<cur>>
    ELSE IF Head(h) = Space THEN <<cur>> \o SplitSpace(Tail(h), EmptyWord)
    ELSE SplitSpace(Tail(h), Head(h))

\* the nil *Token
NoToken ==
    [plaintext |-> EmptyWord, hash |-> Sha256(EmptyWord), user_id |-> 0,
     expiry |-> 0, scope |-> ""]

ErrRand == "rand error"

\* time.Now().Add(ttl)
TokenExpiry(t, ttl) == t + ttl

\* generatedToken; randok: rand.Read succeeds, and then rnd is the encoded text
generatedToken(userID, ttl, scope, t, randok, rnd) ==
    IF ~randok
    THEN [token |-> NoToken, err |-> ErrRand]
    ELSE [token |-> [plaintext |-> rnd, hash |-> Sha256(rnd),
                     user_id |-> userID, expiry |-> TokenExpiry(t, ttl),
                     scope |-> scope],
          err |-> NoErr]

\* as ValidateTokenPlainText, with no check
ValidateTokenPlainTextAny(w) == TRUE

ValidateTokenPlainText(w) ==
    /\ w # EmptyWord
    /\ w.len = TokenLength

\* the statements the database parses, and the tables the statements name
SQLVerbs == {"INSERT", "DELETE", "SELECT", "UPDATE"}
InsertVerb == "INSERT"
InsertTable == "tokesn"
DeleteVerb == "DLETE"
DeleteTable == "tokens"
LookupTable == "tokens"

\* m.DB.ExecContext runs the statement: no error from the connection, a verb
\* the database knows and a relation that exists
ExecOK(db, verb, table, dbok) ==
    /\ dbok
    /\ verb \in SQLVerbs
    /\ table \in DOMAIN db

\* as InsertArgs, with the plaintext in the place of the hash
InsertArgsPlaintext(token) ==
    [hash |-> token.plaintext, user_id |-> token.user_id,
     expiry |-> token.expiry, scope |-> token.scope]

\* args := []any{token.Hash, token.UserID, token.Expiry, token.Scope}
InsertArgs(token) ==
    [hash |-> token.hash, user_id |-> token.user_id,
     expiry |-> token.expiry, scope |-> token.scope]

\* TokenModel.Insert
TokenInsert(db, token, dbok) ==
    IF ExecOK(db, InsertVerb, InsertTable, dbok)
    THEN [db |-> [db EXCEPT ![InsertTable] = @ \cup {InsertArgs(token)}],
          err |-> NoErr]
    ELSE [db |-> db, err |-> ErrStore]

\* as TokenNew, returning nil for the error of Insert
TokenNewIgnoresInsert(db, userID, ttl, scope, t, randok, rnd, dbok) ==
    LET gen == generatedToken(userID, ttl, scope, t, randok, rnd)
    IN IF gen.err # NoErr
       THEN [token |-> NoToken, err |-> gen.err, db |-> db, stmts |-> 0]
       ELSE LET ins == TokenInsert(db, gen.token, dbok)
            IN [token |-> gen.token, err |-> NoErr, db |-> ins.db, stmts |-> 1]

\* TokenModel.New
TokenNew(db, userID, ttl, scope, t, randok, rnd, dbok) ==
    LET gen == generatedToken(userID, ttl, scope, t, randok, rnd)
    IN IF gen.err # NoErr
       THEN [token |-> NoToken, err |-> gen.err, db |-> db, stmts |-> 0]
       ELSE LET ins == TokenInsert(db, gen.token, dbok)
            IN [token |-> gen.token, err |-> ins.err, db |-> ins.db,
                stmts |-> 1]

\* TokenModel.DeleteAllForUser
DeleteAllForUser(db, scope, userID, dbok) ==
    IF ExecOK(db, DeleteVerb, DeleteTable, dbok)
    THEN [db |-> [db EXCEPT ![DeleteTable] =
                    {r \in @ : ~(r.scope = scope /\ r.user_id = userID)}],
          err |-> NoErr]
    ELSE [db |-> db, err |-> ErrStore]

\* as TokenMatches, selecting a row at the instant of its expiry too
TokenMatchesAtExpiry(db, scope, w, t) ==
    {r \in db[LookupTable] :
        r.hash = Sha256(w) /\ r.scope = scope /\ r.expiry >= t}

\* the rows UserModel.GetForToken selects: hash, scope and expiry > now
TokenMatches(db, scope, w, t) ==
    {r \in db[LookupTable] :
        r.hash = Sha256(w) /\ r.scope = scope /\ r.expiry > t}

\* UserModel.GetForToken
GetForToken(db, scope, w, t, dbok) ==
    IF ~ExecOK(db, "SELECT", LookupTable, dbok)
    THEN [user |-> AnonymousUser, err |-> ErrStore]
    ELSE IF TokenMatches(db, scope, w, t) = {}
    THEN [user |-> AnonymousUser, err |-> ErrRecordNotFound]
    ELSE [user |-> (CHOOSE r \in TokenMatches(db, scope, w, t) : TRUE).user_id,
          err |-> NoErr]

\* the responses of authenticate: the helper it calls, or the next handler
InvalidToken == "invalidAuthenticationTokenResponse"
ServerError == "serverErrorResponse"
NotFoundResp == "notFoundResponse"
CallNext == "next.ServeHTTP"

\* as AuthErrorResponse, answering an unknown token as a missing record
AuthErrorResponseNotFound(err) ==
    IF err = ErrRecordNotFound THEN NotFoundResp ELSE ServerError

\* authenticate: the switch on the error of GetForToken
AuthErrorResponse(err) ==
    IF err = ErrRecordNotFound THEN InvalidToken ELSE ServerError

\* headerParts[1] of a header of the form "Bearer <token>", else the empty word
BearerToken(h) ==
    LET parts == SplitSpace(h, EmptyWord)
    IN IF Len(parts) = 2 /\ parts[1] = Bearer THEN parts[2] ELSE EmptyWord

\* as Authenticate, without the branch of the missing header
AuthenticateNoAnonymous(db, h, t, dbok) ==
    LET parts == SplitSpace(h, EmptyWord)
    IN IF Len(parts) # 2 \/ parts[1] # Bearer
       THEN [resp |-> InvalidToken, user |-> AnonymousUser, lookups |-> 0]
       ELSE IF ~ValidateTokenPlainText(parts[2])
       THEN [resp |-> InvalidToken, user |-> AnonymousUser, lookups |-> 0]
       ELSE LET res == GetForToken(db, ScopeAuthentication, parts[2], t, dbok)
            IN IF res.err # NoErr
               THEN [resp |-> AuthErrorResponse(res.err),
                     user |-> AnonymousUser, lookups |-> 1]
               ELSE [resp |-> CallNext, user |-> res.user, lookups |-> 1]

\* the authenticate middleware on a request with Authorization header h
Authenticate(db, h, t, dbok) ==
    LET parts == SplitSpace(h, EmptyWord)
    IN IF h = <<>>
       THEN [resp |-> CallNext, user |-> AnonymousUser, lookups |-> 0]
       ELSE IF Len(parts) # 2 \/ parts[1] # Bearer
       THEN [resp |-> InvalidToken, user |-> AnonymousUser, lookups |-> 0]
       ELSE IF ~ValidateTokenPlainText(parts[2])
       THEN [resp |-> InvalidToken, user |-> AnonymousUser, lookups |-> 0]
       ELSE LET res == GetForToken(db, ScopeAuthentication, parts[2], t, dbok)
            IN IF res.err # NoErr
               THEN [resp |-> AuthErrorResponse(res.err),
                     user |-> AnonymousUser, lookups |-> 1]
               ELSE [resp |-> CallNext, user |-> res.user, lookups |-> 1]

\* the rows the tokens table can hold when the process starts
StoredRows ==
    [hash : {Sha256(w) : w \in RandWords}, user_id : UserIDs,
     expiry : 1 .. MaxClock, scope : Scopes]

\* the result of the call of New right before this instant, if there was one:
\* ok says that neither rand.Read nor the database connection failed
NoIssue == [token |-> NoToken, err |-> "none", ok |-> FALSE]

NoTokenCall ==
    [op |-> "none", h |-> <<>>, userID |-> 0, scope |-> "", ttl |-> 0,
     token |-> NoToken, err |-> NoErr,
     resp |-> "", user |-> AnonymousUser, lookups |-> 0, stmts |-> 0,
     pre |-> [tokens |-> {}], fresh |-> NoIssue]

\* a database without token rows; the token code does not run
InitNoTokens ==
    /\ tdb = [tokens |-> {}]
    /\ clock = 0
    /\ issues = 0
    /\ fresh = NoIssue
    /\ revoked = {}
    /\ tlast = NoTokenCall

\* the database when the process starts, with the rows that earlier runs
\* left in the tokens table, each hash once
InitStored ==
    /\ \E rows \in SUBSET StoredRows :
         /\ Cardinality(rows) <= MaxStored
         /\ \A r1, r2 \in rows : r1.hash = r2.hash => r1 = r2
         /\ tdb = [tokens |-> rows]
    /\ clock = 0
    /\ issues = 0
    /\ fresh = NoIssue
    /\ revoked = {}
    /\ tlast = NoTokenCall

\* a new database: the tokens table is empty; a relation tokesn may exist
\* or not
InitIssuing ==
    /\ tdb \in {[tokens |-> {}], [tokens |-> {}, tokesn |-> {}]}
    /\ clock = 0
    /\ issues = 0
    /\ fresh = NoIssue
    /\ revoked = {}
    /\ tlast = NoTokenCall

\* time passes; tlast and fresh describe calls made at the current instant
ClockTick ==
    /\ clock < MaxClock
    /\ clock' = clock + 1
    /\ fresh' = NoIssue
    /\ tlast' = NoTokenCall
    /\ UNCHANGED <<tdb, issues, revoked>>
    /\ UNCHANGED <<movieVars, limiterVars, serverVars, gateVars>>

\* a handler calls app.models.Tokens.New(userID, ttl, scope)
IssueToken ==
    /\ issues < MaxIssues
    /\ issues' = issues + 1
    /\ \E userID \in UserIDs, ttl \in TTLs, scope \in Scopes,
          randok \in BOOLEAN, rnd \in RandWords, dbok \in BOOLEAN :
         LET res == TokenNew(tdb, userID, ttl, scope, clock, randok, rnd, dbok)
         IN /\ tdb' = res.db
            /\ fresh' = [token |-> res.token, err |-> res.err,
                          ok |-> randok /\ dbok]
            /\ revoked' = IF res.err = NoErr THEN revoked \ {res.token.hash}
                          ELSE revoked
            /\ tlast' = [NoTokenCall EXCEPT !.op = "new", !.userID = userID,
                                            !.scope = scope, !.ttl = ttl,
                                            !.token = res.token,
                                            !.err = res.err,
                                            !.stmts = res.stmts, !.pre = tdb]
    /\ UNCHANGED clock
    /\ UNCHANGED <<movieVars, limiterVars, serverVars, gateVars>>

\* a request passes through the authenticate middleware
AuthenticateRequest ==
    /\ \E h \in Headers, dbok \in BOOLEAN :
         LET res == Authenticate(tdb, h, clock, dbok)
         IN tlast' = [NoTokenCall EXCEPT !.op = "authenticate", !.h = h,
                                         !.err = IF dbok THEN NoErr ELSE ErrStore,
                                         !.resp = res.resp, !.user = res.user,
                                         !.lookups = res.lookups,
                                         !.pre = tdb, !.fresh = fresh]
    /\ fresh' = NoIssue
    /\ UNCHANGED <<tdb, clock, issues, revoked>>
    /\ UNCHANGED <<movieVars, limiterVars, serverVars, gateVars>>

\* a handler calls app.models.Tokens.DeleteAllForUser(scope, userID)
InvalidateTokens ==
    /\ \E scope \in Scopes, userID \in UserIDs, dbok \in BOOLEAN :
         LET res == DeleteAllForUser(tdb, scope, userID, dbok)
         IN /\ tdb' = res.db
            /\ revoked' = IF dbok
                          THEN revoked \cup
                                 {r.hash : r \in {x \in tdb[LookupTable] :
                                     x.scope = scope /\ x.user_id = userID}}
                          ELSE revoked
            /\ tlast' = [NoTokenCall EXCEPT !.op = "delete", !.err = res.err,
                                            !.stmts = 1, !.pre = tdb]
    /\ fresh' = NoIssue
    /\ UNCHANGED <<clock, issues>>
    /\ UNCHANGED <<movieVars, limiterVars, serverVars, gateVars>>

(***************************************************************************)
(* The gates requireAuthenticatedUser, requireActivatedUser and             *)
(* requiredPermission, the permission model, and the middleware chain.     *)
(***************************************************************************)
\* permission codes: the text "movies:read" is the sequence of its parts
\* between the colons; code == p[i] compares the whole text
CodeRead == <<"movies", "read">>
CodeWrite == <<"movies", "write">>
StoredCodes == {CodeRead, CodeWrite}
NoCode == <<>>

\* as Include, a code of the slice standing for every code of its resource
IncludeResource(p, code) ==
    \E i \in 1 .. Len(p) : code # NoCode /\ p[i] # NoCode /\ code[1] = p[i][1]

\* Permissions.Include
Include(p, code) == \E i \in 1 .. Len(p) : code = p[i]

\* codes a slice can hold and a caller can ask for: the codes of the
\* permissions table, a resource without action, wildcards, the empty string
ProbeCodes ==
    StoredCodes \cup {<<"movies">>, <<"movies", "*">>, <<"*">>, NoCode}

\* the Permissions slices of at most MaxPermissions codes
PermissionSlices ==
    UNION {[1 .. n -> ProbeCodes] : n \in 0 .. MaxPermissions}

NoIncludeCall == [p |-> <<>>, code |-> NoCode, result |-> FALSE, done |-> FALSE]

\* p.Include(code) is called and returns
IncludeCall ==
    /\ ~incl.done
    /\ incl' = [incl EXCEPT !.result = Include(incl.p, incl.code),
                            !.done = TRUE]
    /\ UNCHANGED <<users, pdb, glast, scall, auxVars>>
    /\ UNCHANGED <<movieVars, limiterVars, serverVars, tokenVars>>

\* the caller drops the answer
IncludeReturns ==
    /\ incl.done
    /\ incl' = [incl EXCEPT !.result = FALSE, !.done = FALSE]
    /\ UNCHANGED <<users, pdb, glast, scall, auxVars>>
    /\ UNCHANGED <<movieVars, limiterVars, serverVars, tokenVars>>

\* the rows of a result set, in the order the database returns them
RECURSIVE RowsInOrder(_)
RowsInOrder(S) ==
    IF S = {} THEN <<>>
    ELSE LET x == CHOOSE y \in S : TRUE IN <<x>> \o RowsInOrder(S \ {x})

\* the relations of the FROM and JOIN clauses of the query of GetAllForUser,
\* and the relation names its columns are qualified with
GetAllFrom == {"permissions", "users_permissions", "users"}
GetAllQualifiers == {"permissions", "users_permissions", "permission", "users"}

\* the relations of the statement of AddForUser and its qualifiers
AddFrom == {"users_permissions", "permissions"}
AddQualifiers == {"permissions"}

\* m.DB.QueryContext / ExecContext runs the statement: no error from the
\* connection, and every qualifier names a relation of the statement
QueryOK(db, from, qualifiers, dbok) ==
    /\ dbok
    /\ from \subseteq DOMAIN db
    /\ qualifiers \subseteq from

\* the codes the join of GetAllForUser selects for the user
CodesOf(db, userID) ==
    {p.code : p \in {q \in db.permissions :
        /\ userID \in db.users
        /\ [user_id |-> userID, permission_id |-> q.id] \in db.users_permissions}}

\* PermissionMoel.GetAllForUser
GetAllForUser(db, userID, dbok) ==
    IF ~QueryOK(db, GetAllFrom, GetAllQualifiers, dbok)
    THEN [permissions |-> <<>>, err |-> ErrStore]
    ELSE [permissions |-> RowsInOrder(CodesOf(db, userID)), err |-> NoErr]

\* PermissionMoel.AddForUser: one row per permission with one of the codes; a
\* row that is stored already violates the primary key
AddForUser(db, userID, codes, dbok) ==
    LET rows == {[user_id |-> userID, permission_id |-> p.id] :
                    p \in {q \in db.permissions : q.code \in codes}}
    IN IF /\ QueryOK(db, AddFrom, AddQualifiers, dbok)
          /\ userID \in db.users
          /\ rows \cap db.users_permissions = {}
       THEN [db |-> [db EXCEPT !.users_permissions = @ \cup rows], err |-> NoErr]
       ELSE [db |-> db, err |-> ErrStore]

\* the user of the request context: data.AnonymousUser, or a users row
Anonymous == [id |-> AnonymousUser, activated |-> FALSE]
Identity(us, id) ==
    IF id = AnonymousUser THEN Anonymous ELSE [id |-> id, activated |-> us[id]]

\* User.IsAnonymous
IsAnonymous(user) == user = Anonymous

\* the responses of the gates and of the chain
AuthenticationRequired == "authenticationRequiredResponse"
InactiveAccount == "inactiveAccountResponse"
NotPermitted == "notPermittedResponse"
RateLimitExceeded == "rateLimitExceededResponse"
HandlerResponse == "handler response"
Panic == "panic"

\* the status codes of the helpers the gates call
StatusTooManyRequests == 429
StatusUnauthorized == 401
StatusForbidden == 403

\* the status line of a response
ResponseStatus(resp) ==
    CASE resp = RateLimitExceeded -> StatusTooManyRequests
      [] resp \in {InvalidToken, AuthenticationRequired} -> StatusUnauthorized
      [] resp \in {InactiveAccount, NotPermitted} -> StatusForbidden
      [] resp = ServerError -> StatusInternalServerError
      [] OTHER -> StatusOK

\* what a handler did with a request: its response, the checks that were made
\* in their order, the calls of the wrapped handler, the calls of
\* GetAllForUser and of GetForToken
Stopped(resp, check) ==
    [resp |-> resp, checks |-> <<check>>, calls |-> 0, plookups |-> 0,
     tlookups |-> 0]
\* the check was passed and next.ServeHTTP did what next says
Passed(check, next) == [next EXCEPT !.checks = <<check>> \o @]
\* the wrapped handler itself
HandlerRuns(panics) ==
    [resp |-> IF panics THEN Panic ELSE HandlerResponse, checks |-> <<>>,
     calls |-> 1, plookups |-> 0, tlookups |-> 0]

\* as requireAuthenticatedUser, without the check
requireAuthenticatedUserAll(user, next) == Passed("anonymous", next)

\* requireAuthenticatedUser; next: what next.ServeHTTP does if it is called
requireAuthenticatedUser(user, next) ==
    IF IsAnonymous(user)
    THEN Stopped(AuthenticationRequired, "anonymous")
    ELSE Passed("anonymous", next)

\* as requireActivatedUser, returning fn without requireAuthenticatedUser
requireActivatedUserBare(user, next) ==
    IF ~user.activated
    THEN Stopped(InactiveAccount, "activated")
    ELSE Passed("activated", next)

\* requireActivatedUser
requireActivatedUser(user, next) ==
    requireAuthenticatedUser(user,
        IF ~user.activated
        THEN Stopped(InactiveAccount, "activated")
        ELSE Passed("activated", next))

\* as requiredPermission, answering a failed lookup as a missing permission
requiredPermissionErrDenied(db, user, code, next, dbok) ==
    requireActivatedUser(user,
        LET res == GetAllForUser(db, user.id, dbok)
        IN [(IF ~Include(res.permissions, code)
             THEN Stopped(NotPermitted, "permission")
             ELSE Passed("permission", next)) EXCEPT !.plookups = @ + 1])

\* requiredPermission
requiredPermission(db, user, code, next, dbok) ==
    requireActivatedUser(user,
        LET res == GetAllForUser(db, user.id, dbok)
        IN [(IF res.err # NoErr
             THEN Stopped(ServerError, "permission")
             ELSE IF ~Include(res.permissions, code)
             THEN Stopped(NotPermitted, "permission")
             ELSE Passed("permission", next)) EXCEPT !.plookups = @ + 1])

\* the routes: a handler behind none of the gates, or behind one of them
Gates == {"public", "authenticated", "activated", "permission"}
Routes ==
    {[gate |-> g, code |-> NoCode] : g \in Gates \ {"permission"}}
    \cup {[gate |-> "permission", code |-> c] : c \in StoredCodes}

\* the handler of a route as routes() wraps it
RouteHandler(db, route, user, panics, dbok) ==
    CASE route.gate = "public" -> HandlerRuns(panics)
      [] route.gate = "authenticated" ->
            requireAuthenticatedUser(user, HandlerRuns(panics))
      [] route.gate = "activated" ->
            requireActivatedUser(user, HandlerRuns(panics))
      [] route.gate = "permission" ->
            requiredPermission(db, user, route.code, HandlerRuns(panics), dbok)

\* authenticate around next; next(user) is given for the user of the token
AuthenticateGate(a, next) ==
    IF a.resp = CallNext
    THEN [Passed("authenticate", next) EXCEPT !.tlookups = @ + a.lookups]
    ELSE [Stopped(a.resp, "authenticate") EXCEPT !.tlookups = a.lookups]

\* rateLimit around next; allowed: the result of limiter.Allow()
RateLimitGate(on, allowed, next) ==
    IF on /\ ~allowed
    THEN Stopped(RateLimitExceeded, "limiter")
    ELSE Passed("limiter", next)

\* recoverPanic around next
RecoverPanic(next) ==
    IF next.resp = Panic
    THEN [Passed("recover", next) EXCEPT !.resp = ServerError]
    ELSE Passed("recover", next)

\* as Chain, with authenticate outside rateLimit
ChainAuthenticateFirst(tdbase, db, us, on, allowed, h, t, route, panics, tok, pok) ==
    LET a == Authenticate(tdbase, h, t, tok)
    IN RecoverPanic(AuthenticateGate(a,
           RateLimitGate(on, allowed,
               RouteHandler(db, route, Identity(us, a.user), panics, pok))))

\* app.recoverPanic(app.rateLimit(app.authenticate(router))) on one request
Chain(tdbase, db, us, on, allowed, h, t, route, panics, tok, pok) ==
    LET a == Authenticate(tdbase, h, t, tok)
    IN RecoverPanic(RateLimitGate(on, allowed,
           AuthenticateGate(a,
               RouteHandler(db, route, Identity(us, a.user), panics, pok))))

\* the permissions table, and the rows of users_permissions
PermissionRows == {[id |-> 1, code |-> CodeRead], [id |-> 2, code |-> CodeWrite]}
GrantRows == [user_id : UserIDs, permission_id : {p.id : p \in PermissionRows}]

\* the tokens the clients of the chain hold: one per user, not expired
ChainTokens ==
    {[hash |-> Sha256(Word("A", EncodedLen(RandomBytes), TRUE)), user_id |-> 1,
      expiry |-> MaxClock + 1, scope |-> ScopeAuthentication],
     [hash |-> Sha256(Word("B", EncodedLen(RandomBytes), TRUE)), user_id |-> 2,
      expiry |-> MaxClock + 1, scope |-> ScopeAuthentication]}

\* the Authorization headers of the requests to the chain
ChainHeaders ==
    {<<>>, <<Bearer, Space, ShortWord>>}
    \cup {<<Bearer, Space, w>> : w \in RandWords}

\* what goes wrong while a request is served, one thing at most: Allow()
\* returns false, the token lookup or the permission lookup fails in the
\* database, or the handler panics
ChainFaults == {"none", "limiter", "tokens", "permissions", "panic"}

NoGateCall ==
    [op |-> "none", route |-> [gate |-> "public", code |-> NoCode],
     user |-> Anonymous, h |-> <<>>, fault |-> "none", granted |-> {},
     err |-> NoErr,
     out |-> HandlerRuns(FALSE)]

\* the methods of the data models that run a statement, by the file that
\* holds them; deadline: the statement is run with the context of
\* context.WithTimeout
StoreOp(file, model, op, deadline) ==
    [file |-> file, model |-> model, op |-> op, deadline |-> deadline]
StoreOps ==
    {StoreOp("chapter-8/8.2/internal/data/movies.go", "movies", o, FALSE) :
        o \in {"Insert", "Get", "Update", "Delete"}}
    \cup {StoreOp("unnamed/part_009", "movies", o, TRUE) :
        o \in {"Insert", "Get", "Update", "Delete", "GetAll"}}
    \cup {StoreOp("unnamed/part_013", "users", o, TRUE) :
        o \in {"Insert", "GetByEmail", "Update"}}
    \cup {StoreOp("unnamed/part_000", "tokens", o, TRUE) :
        o \in {"Insert", "DeleteAllForUser"}}
    \cup {StoreOp("chapter-17/17.1/internal/data/permissions.go",
                  "permissions", o, TRUE) :
        o \in {"GetAllForUser", "AddForUser"}}

\* the 3*time.Second of the contexts, in seconds
StoreTimeout == 3

\* the errors a method can return when the database answers
AnswerErrors(o) ==
    {NoErr, ErrStore}
    \cup (IF o.op = "Update" THEN {ErrEditConflict} ELSE {})
    \cup (IF o.op \in {"Get", "GetByEmail", "Delete"}
          THEN {ErrRecordNotFound} ELSE {})

NoStoreCall ==
    [op |-> StoreOp("", "", "", TRUE), state |-> "idle", elapsed |-> 0,
     err |-> NoErr, timedOut |-> FALSE, status |-> 0]

\* a handler calls the method o; the statement is sent to the database
StoreCall ==
    /\ scall.state = "idle"
    /\ \E o \in StoreOps :
         scall' = [NoStoreCall EXCEPT !.op = o, !.state = "waiting"]
    /\ UNCHANGED <<users, pdb, glast, incl, auxVars>>
    /\ UNCHANGED <<movieVars, limiterVars, serverVars, tokenVars>>

\* the database answers; the method returns what the answer amounts to, and
\* updateMovieHandler answers the client after Update
StoreAnswers ==
    /\ scall.state = "waiting"
    /\ \E e \in AnswerErrors(scall.op) :
         scall' = [scall EXCEPT
             !.state = "returned", !.err = e,
             !.status = IF scall.op.model = "movies" /\ scall.op.op = "Update"
                        THEN IF e = NoErr THEN StatusOK
                             ELSE UpdateErrorStatus(e)
                        ELSE 0]
    /\ UNCHANGED <<users, pdb, glast, incl, auxVars>>
    /\ UNCHANGED <<movieVars, limiterVars, serverVars, tokenVars>>

\* a second passes without an answer of the database; a context lets no
\* second pass beyond its deadline
SecondPasses ==
    /\ scall.state = "waiting"
    /\ scall.elapsed < MaxWait
    /\ scall.op.deadline => scall.elapsed < StoreTimeout
    /\ scall' = [scall EXCEPT !.elapsed = @ + 1]
    /\ UNCHANGED <<users, pdb, glast, incl, auxVars>>
    /\ UNCHANGED <<movieVars, limiterVars, serverVars, tokenVars>>

\* the deadline of the context passes: the statement is cancelled and the
\* method returns the error of the context
DeadlineExceeded ==
    /\ scall.state = "waiting"
    /\ scall.op.deadline
    /\ scall.elapsed = StoreTimeout
    /\ scall' = [scall EXCEPT
            !.state = "returned", !.err = ErrDeadlineExceeded,
            !.timedOut = TRUE,
            !.status = IF scall.op.model = "movies" /\ scall.op.op = "Update"
                       THEN UpdateErrorStatus(ErrDeadlineExceeded) ELSE 0]
    /\ UNCHANGED <<users, pdb, glast, incl, auxVars>>
    /\ UNCHANGED <<movieVars, limiterVars, serverVars, tokenVars>>

\* the handler is done with the result
StoreCallEnds ==
    /\ scall.state = "returned"
    /\ scall' = NoStoreCall
    /\ UNCHANGED <<users, pdb, glast, incl, auxVars>>
    /\ UNCHANGED <<movieVars, limiterVars, serverVars, tokenVars>>

(***************************************************************************)
(* One key of rateLimit under the flags -limiter-rps and -limiter-burst.   *)
(* Time is counted in the ticks of the clock of rateLimit; tokenTicks is   *)
(* the time the bucket takes to gain one token, 1/rps seconds, in ticks.   *)
(***************************************************************************)
\* the defaults of the flags: rps 2 and burst 4
DefaultFlags == [burst |-> LimiterBurst, tokenTicks |-> TicksPerToken]

\* -limiter-rps set to one request in SlowMinutes minutes
SlowFlags == [burst |-> LimiterBurst, tokenTicks |-> SlowMinutes * Minute]

LimiterFlags == {DefaultFlags, SlowFlags}

\* rate.NewLimiter(rate.Limit(rps), burst) at time t: a full bucket
NewLimiterAt(cfg, t) == [tokens |-> cfg.burst * cfg.tokenTicks, last |-> t]

\* the level of the bucket at time t
BucketAt(cfg, lim, t) ==
    Min(cfg.burst * cfg.tokenTicks, lim.tokens + (t - lim.last))

\* limiter.Allow() at time t
AllowAt(cfg, lim, t) ==
    LET level == BucketAt(cfg, lim, t)
    IN IF level >= cfg.tokenTicks
       THEN [ok |-> TRUE, lim |-> [tokens |-> level - cfg.tokenTicks, last |-> t]]
       ELSE [ok |-> FALSE, lim |-> lim]

NoEntry == [present |-> FALSE, limiter |-> NewLimiterAt(DefaultFlags, 0),
            lastSeen |-> 0]

BucketStart(cfg) ==
    [cfg |-> cfg, now |-> 0, entry |-> NoEntry,
     nextSweep |-> SweepMinutes * Minute, admits |-> <<>>]

\* the rateLimit handler for one request of the key, from mu.Lock() to
\* mu.Unlock()
BucketRequest ==
    /\ Len(bk.admits) < MaxAdmits
    /\ LET lim == IF bk.entry.present THEN bk.entry.limiter
                  ELSE NewLimiterAt(bk.cfg, bk.now)
           res == AllowAt(bk.cfg, lim, bk.now)
       IN bk' = [bk EXCEPT
              !.entry = [present |-> TRUE, limiter |-> res.lim,
                         lastSeen |-> bk.now],
              !.admits = IF res.ok THEN Append(@, bk.now) ELSE @]
    /\ UNCHANGED <<rp, bg, permVars, movieVars, limiterVars, serverVars, tokenVars>>

\* the sweep goroutine, from mu.Lock() to mu.Unlock(), a minute or more after
\* the end of the sweep before
BucketSweep ==
    /\ bk.now >= bk.nextSweep
    /\ bk' = [bk EXCEPT
           !.entry = IF bk.entry.present
                        /\ SweepExpired(bk.now, bk.entry.lastSeen)
                     THEN NoEntry ELSE @,
           !.nextSweep = bk.now + SweepMinutes * Minute]
    /\ UNCHANGED <<rp, bg, permVars, movieVars, limiterVars, serverVars, tokenVars>>

\* a tick passes, in the first ticks after the start
BucketTick ==
    /\ bk.now < MaxTicks
    /\ bk' = [bk EXCEPT !.now = @ + 1]
    /\ UNCHANGED <<rp, bg, permVars, movieVars, limiterVars, serverVars, tokenVars>>

\* the clock advances to the next full minute
BucketMinute ==
    /\ bk.now \div Minute < MaxMinutes
    /\ bk' = [bk EXCEPT !.now = (@ \div Minute + 1) * Minute]
    /\ UNCHANGED <<rp, bg, permVars, movieVars, limiterVars, serverVars, tokenVars>>

(***************************************************************************)
(* cmd/api/middleware.go: recoverPanic, and the http.ResponseWriter it     *)
(* writes to.                                                              *)
(***************************************************************************)
\* an http.ResponseWriter: the Header() map, and what has gone to the client
NewWriter ==
    [committed |-> FALSE, status |-> 0, header |-> {}, sent |-> {},
     body |-> <<>>]

\* w.Header().Set(key, value)
HeaderSet(w, key, value) ==
    [w EXCEPT !.header = {x \in @ : x[1] # key} \cup {<<key, value>>}]

\* w.WriteHeader(status): the first call sends the status line and the
\* headers set so far; a later call is ignored
WriteHeader(w, status) ==
    IF w.committed THEN w
    ELSE [w EXCEPT !.committed = TRUE, !.status = status, !.sent = w.header]

\* w.Write(js): sends the headers with status 200 if none were sent
Write(w, js) ==
    [WriteHeader(w, StatusOK) EXCEPT !.body = Append(@, js)]

\* app.writeJSON(w, status, data, nil)
writeJSON(w, status, js) ==
    Write(WriteHeader(HeaderSet(w, "Content-Type", "application/json"),
                      status), js)

ServerErrorMessage ==
    "the server encountered a problem and couldn't process your request"

\* app.serverErrorResponse(w, r, err)
serverErrorResponse(w) ==
    writeJSON(w, StatusInternalServerError, ServerErrorMessage)

\* what a handler behind recoverPanic does: the status of its response, the
\* headers added before it, and whether and where it panics
HandlerStages ==
    {"returns", "panics first", "panics after the header",
     "panics after the body"}
HandlerBehaviours ==
    [status : {StatusOK, StatusCreated, StatusBadRequest, StatusNotFound,
               StatusConflict, StatusUnprocessableEntity,
               StatusInternalServerError},
     vary : BOOLEAN, location : BOOLEAN, stage : HandlerStages]

\* next.ServeHTTP(w, r) for the handler hd
ServeHTTP(w, hd) ==
    LET w1 == IF hd.vary THEN HeaderSet(w, "Vary", "Authorization") ELSE w
        w2 == IF hd.location THEN HeaderSet(w1, "Location", "/v1/movies/1")
              ELSE w1
        w3 == WriteHeader(HeaderSet(w2, "Content-Type", "application/json"),
                          hd.status)
    IN CASE hd.stage = "returns" ->
                [w |-> writeJSON(w2, hd.status, "data"), panic |-> FALSE]
         [] hd.stage = "panics first" -> [w |-> w1, panic |-> TRUE]
         [] hd.stage = "panics after the header" -> [w |-> w3, panic |-> TRUE]
         [] hd.stage = "panics after the body" ->
                [w |-> writeJSON(w2, hd.status, "data"), panic |-> TRUE]

\* as recoverPanic, without the deferred function
recoverPanicNoDefer(w, hd) == ServeHTTP(w, hd)

\* recoverPanic around next, for the handler hd
recoverPanic(w, hd) ==
    LET res == ServeHTTP(w, hd)
    IN IF res.panic
       THEN [w |-> serverErrorResponse(HeaderSet(res.w, "Connection", "close")),
             panic |-> FALSE]
       ELSE res

NoRecoverCall(hd) ==
    [hd |-> hd, done |-> FALSE, w |-> NewWriter, panic |-> FALSE]

\* the server serves the request
RecoverServe ==
    /\ ~rp.done
    /\ LET res == recoverPanic(NewWriter, rp.hd)
       IN rp' = [rp EXCEPT !.done = TRUE, !.w = res.w, !.panic = res.panic]
    /\ UNCHANGED <<bk, bg, permVars, movieVars, limiterVars, serverVars, tokenVars>>

\* the next request arrives, unless a panic has ended the goroutine
RecoverNext ==
    /\ rp.done
    /\ ~rp.panic
    /\ \E hd \in HandlerBehaviours : rp' = NoRecoverCall(hd)
    /\ UNCHANGED <<bk, bg, permVars, movieVars, limiterVars, serverVars, tokenVars>>

\* the key is not followed, no request passes recoverPanic
(***************************************************************************)
(* app.background of cmd/api/helpers.go and the wait group of the          *)
(* application struct.  A task is one call of app.background(fn); Outcomes *)
(* is what fn does.                                                        *)
(***************************************************************************)
Tasks == 1 .. MaxTasks
Outcomes == {"returns", "panics"}

NoTask == [pc |-> "none", fn |-> "returns"]

\* no call of app.background yet: the counter of app.wg is 0
NoBackground ==
    [wg |-> 0, task |-> [t \in Tasks |-> NoTask], logged |-> 0,
     crashed |-> FALSE, wait |-> "idle"]

BackgroundUnchanged ==
    UNCHANGED <<bk, rp, permVars, movieVars, limiterVars, serverVars, tokenVars>>

\* app.background(fn): app.wg.Add(1), then the go statement
Background(t) ==
    /\ ~bg.crashed
    /\ bg.task[t].pc = "none"
    /\ \E fn \in Outcomes :
          bg' = [bg EXCEPT !.wg = @ + 1,
                           !.task[t] = [pc |-> "started", fn |-> fn]]
    /\ BackgroundUnchanged

\* the goroutine runs: both defers are pushed, fn() is called and ends
BackgroundFn(t) ==
    /\ ~bg.crashed
    /\ bg.task[t].pc = "started"
    /\ bg' = [bg EXCEPT !.task[t].pc = "unwinding"]
    /\ BackgroundUnchanged

\* a goroutine whose panic nothing recovers: the runtime ends the process
BackgroundNoRecover(t) ==
    /\ ~bg.crashed
    /\ bg.task[t].pc = "unwinding"
    /\ bg' = [bg EXCEPT !.task[t].pc = "recovered",
                        !.crashed = (bg.task[t].fn = "panics")]
    /\ BackgroundUnchanged

\* the deferred function: recover() is nil after a return of fn; after a
\* panic it stops the panic and the error is logged
BackgroundRecover(t) ==
    /\ ~bg.crashed
    /\ bg.task[t].pc = "unwinding"
    /\ bg' = [bg EXCEPT !.task[t].pc = "recovered",
                        !.logged = IF bg.task[t].fn = "panics" THEN @ + 1 ELSE @]
    /\ BackgroundUnchanged

\* the deferred app.wg.Done()
BackgroundDone(t) ==
    /\ ~bg.crashed
    /\ bg.task[t].pc = "recovered"
    /\ bg' = [bg EXCEPT !.wg = @ - 1, !.task[t].pc = "done"]
    /\ BackgroundUnchanged

\* sync.WaitGroup.Wait: a goroutine calls app.wg.Wait()
WaitGroupWait ==
    /\ ~bg.crashed
    /\ bg.wait = "idle"
    /\ bg' = [bg EXCEPT !.wait = "waiting"]
    /\ BackgroundUnchanged

\* sync.WaitGroup.Wait returns when the counter is zero
WaitGroupReturns ==
    /\ ~bg.crashed
    /\ bg.wait = "waiting"
    /\ bg.wg = 0
    /\ bg' = [bg EXCEPT !.wait = "passed"]
    /\ BackgroundUnchanged

InitNoAux ==
    /\ bg = NoBackground
    /\ bk = BucketStart(DefaultFlags)
    /\ rp = NoRecoverCall([status |-> StatusOK, vary |-> FALSE,
                           location |-> FALSE, stage |-> "returns"])

\* no user, no permission; the gates do not run
InitNoGates ==
    /\ InitNoAux
    /\ scall = NoStoreCall
    /\ incl = NoIncludeCall
    /\ users = [u \in UserIDs |-> FALSE]
    /\ pdb = [permissions |-> {}, users_permissions |-> {}, users |-> {}]
    /\ glast = NoGateCall

\* the users and the permissions they hold when the process starts
InitGates ==
    /\ InitNoAux
    /\ scall = NoStoreCall
    /\ incl = NoIncludeCall
    /\ users \in [UserIDs -> BOOLEAN]
    /\ \E held \in SUBSET GrantRows :
         pdb = [permissions |-> PermissionRows, users_permissions |-> held,
                users |-> UserIDs]
    /\ glast = NoGateCall

\* one request passes through the chain
ChainRequest ==
    /\ \E h \in ChainHeaders, route \in Routes, fault \in ChainFaults :
         LET a == Authenticate(tdb, h, clock, fault # "tokens")
         IN glast' = [NoGateCall EXCEPT
                !.op = "request", !.route = route, !.h = h,
                !.user = Identity(users, a.user), !.fault = fault,
                !.out = Chain(tdb, pdb, users, enabled, fault # "limiter", h,
                              clock, route, fault = "panic",
                              fault # "tokens", fault # "permissions")]
    /\ UNCHANGED <<users, pdb, scall, incl, auxVars>>
    /\ UNCHANGED <<movieVars, limiterVars, serverVars, tokenVars>>

\* a handler calls app.models.Permissions.AddForUser(userID, code)
GrantPermission ==
    /\ \E userID \in UserIDs, code \in StoredCodes, dbok \in BOOLEAN :
         LET res == AddForUser(pdb, userID, {code}, dbok)
         IN /\ pdb' = res.db
            /\ glast' = [NoGateCall EXCEPT
                   !.op = "grant", !.err = res.err,
                   !.granted = {[user_id |-> userID, code |-> code]}]
    /\ UNCHANGED <<users, scall, incl, auxVars>>
    /\ UNCHANGED <<movieVars, limiterVars, serverVars, tokenVars>>

Init ==
    /\ InitMovies /\ InitLimiter /\ InitServer /\ InitNoTokens
    /\ InitNoGates
    /\ enabled = TRUE
    /\ hosts = {"ip1"}

\* the movie handlers against the movies table
Next ==
    \/ \E r \in Reqs : CreateMovie(r)
    \/ \E r \in Reqs : ShowMovie(r)
    \/ \E r \in Reqs : UpdateMovieGet(r)
    \/ \E r \in Reqs : UpdateMovieCommit(r)
    \/ \E r \in Reqs : DeleteMovie(r)

Spec == Init /\ [][Next]_vars

InitLimited ==
    /\ InitMovies /\ InitLimiter /\ InitServer /\ InitNoTokens
    /\ InitNoGates
    /\ enabled \in BOOLEAN
    /\ hosts = {"ip1"}

\* the rateLimit middleware and its sweep goroutine while the server runs
NextLimiter ==
    \/ Tick
    \/ TickMinute
    \/ \E c \in Conns : RLBegin(c)
    \/ \E c \in Conns : RLLock(c)
    \/ \E c \in Conns : RLLookup(c)
    \/ \E c \in Conns : RLSeen(c)
    \/ \E c \in Conns : RLAllow(c)
    \/ \E c \in Conns : RLUnlock(c)
    \/ \E c \in Conns : RLRespond(c)
    \/ SweepWake
    \/ SweepLock
    \/ SweepVisit
    \/ SweepUnlock
    \/ SweepSleep

SpecLimiter == InitLimited /\ [][NextLimiter]_vars

\* server() from its start to its return, with the sweep goroutine of
\* rateLimit and one connection goroutine
NextShutdown ==
    \/ TickMinute
    \/ RLBegin("c1")
    \/ RLLock("c1")
    \/ RLLookup("c1")
    \/ RLSeen("c1")
    \/ RLAllow("c1")
    \/ RLUnlock("c1")
    \/ RLRespond("c1")
    \/ SweepWake
    \/ SweepLock
    \/ SweepVisit
    \/ SweepUnlock
    \/ SweepSleep
    \/ CatchSignal
    \/ ListenFails
    \/ ListenClosed
    \/ ShutdownReturns
    \/ ServerReturns

SpecShutdown == InitLimited /\ [][NextShutdown]_vars

\* the steps of server() the Go runtime and net/http do not hold back: a
\* runnable goroutine is scheduled, the listener closed by Shutdown makes
\* ListenAndServe return, Shutdown returns when its context is done at the
\* latest, and the send on shutdownError meets the receive of server()
ServerFairness ==
    /\ WF_vars(ListenClosed)
    /\ WF_vars(ShutdownReturns)
    /\ WF_vars(ServerReturns)

SpecServer == InitLimited /\ [][NextShutdown]_vars /\ ServerFairness

InitKeys ==
    /\ InitMovies /\ InitLimiter /\ InitServer /\ InitNoTokens
    /\ InitNoGates
    /\ enabled = TRUE
    /\ hosts = IPs

\* one connection goroutine serving the requests of two hosts, one after the
\* other, in the first ticks after the start
NextKeys ==
    \/ Tick
    \/ RLBegin("c1")
    \/ RLLock("c1")
    \/ RLLookup("c1")
    \/ RLSeen("c1")
    \/ RLAllow("c1")
    \/ RLUnlock("c1")
    \/ RLRespond("c1")

SpecKeys == InitKeys /\ [][NextKeys]_vars

\* the sweep goroutine and one connection goroutine serving the requests of
\* two hosts, minute after minute
NextSweep ==
    \/ TickMinute
    \/ RLBegin("c1")
    \/ RLLock("c1")
    \/ RLLookup("c1")
    \/ RLSeen("c1")
    \/ RLAllow("c1")
    \/ RLUnlock("c1")
    \/ RLRespond("c1")
    \/ SweepWake
    \/ SweepLock
    \/ SweepVisit
    \/ SweepUnlock
    \/ SweepSleep

SpecSweep == InitKeys /\ [][NextSweep]_vars

InitTokenStore ==
    /\ InitMovies /\ InitLimiter /\ InitServer /\ InitStored
    /\ InitNoGates
    /\ enabled = TRUE
    /\ hosts = {"ip1"}

\* the authenticate middleware and DeleteAllForUser against stored tokens
NextTokens ==
    \/ ClockTick
    \/ AuthenticateRequest
    \/ InvalidateTokens

SpecTokens == InitTokenStore /\ [][NextTokens]_vars

InitIssue ==
    /\ InitMovies /\ InitLimiter /\ InitServer /\ InitIssuing
    /\ InitNoGates
    /\ enabled = TRUE
    /\ hosts = {"ip1"}

\* TokenModel.New and the authenticate middleware against a new database
NextIssue ==
    \/ ClockTick
    \/ IssueToken
    \/ AuthenticateRequest

SpecIssue == InitIssue /\ [][NextIssue]_vars

InitChain ==
    /\ InitMovies /\ InitLimiter /\ InitServer /\ InitGates
    /\ enabled = TRUE
    /\ hosts = {"ip1"}
    /\ tdb = [tokens |-> ChainTokens]
    /\ clock = 0
    /\ issues = 0
    /\ fresh = NoIssue
    /\ revoked = {}
    /\ tlast = NoTokenCall

\* requests through the middleware chain, and grants of permissions
NextChain ==
    \/ ChainRequest
    \/ GrantPermission

SpecChain == InitChain /\ [][NextChain]_vars

\* a slice and a code, and the call of Include on them
InitInclude ==
    /\ InitMovies /\ InitLimiter /\ InitServer /\ InitNoTokens
    /\ enabled = TRUE
    /\ hosts = {"ip1"}
    /\ InitNoAux
    /\ scall = NoStoreCall
    /\ users = [u \in UserIDs |-> FALSE]
    /\ pdb = [permissions |-> {}, users_permissions |-> {}, users |-> {}]
    /\ glast = NoGateCall
    /\ \E p \in PermissionSlices, code \in ProbeCodes :
         incl = [NoIncludeCall EXCEPT !.p = p, !.code = code]

NextInclude ==
    \/ IncludeCall
    \/ IncludeReturns

SpecInclude == InitInclude /\ [][NextInclude]_vars

\* one key from the start of the process, under each setting of the flags
InitBucket ==
    /\ InitMovies /\ InitLimiter /\ InitServer /\ InitNoTokens
    /\ enabled = TRUE
    /\ hosts = {"ip1"}
    /\ scall = NoStoreCall
    /\ incl = NoIncludeCall
    /\ users = [u \in UserIDs |-> FALSE]
    /\ pdb = [permissions |-> {}, users_permissions |-> {}, users |-> {}]
    /\ glast = NoGateCall
    /\ \E cfg \in LimiterFlags : bk = BucketStart(cfg)
    /\ bg = NoBackground
    /\ rp = NoRecoverCall([status |-> StatusOK, vary |-> FALSE,
                           location |-> FALSE, stage |-> "returns"])

NextBucket ==
    \/ BucketRequest
    \/ BucketSweep
    \/ BucketTick
    \/ BucketMinute

SpecBucket == InitBucket /\ [][NextBucket]_vars

\* requests through recoverPanic, one after the other
InitRecover ==
    /\ InitMovies /\ InitLimiter /\ InitServer /\ InitNoTokens
    /\ enabled = TRUE
    /\ hosts = {"ip1"}
    /\ scall = NoStoreCall
    /\ incl = NoIncludeCall
    /\ users = [u \in UserIDs |-> FALSE]
    /\ pdb = [permissions |-> {}, users_permissions |-> {}, users |-> {}]
    /\ glast = NoGateCall
    /\ bk = BucketStart(DefaultFlags)
    /\ \E hd \in HandlerBehaviours : rp = NoRecoverCall(hd)
    /\ bg = NoBackground

NextRecover ==
    \/ RecoverServe
    \/ RecoverNext

SpecRecover == InitRecover /\ [][NextRecover]_vars

InitBackground ==
    /\ InitLimited
    /\ enabled = TRUE

NextBackground ==
    \/ \E t \in Tasks : Background(t)
    \/ \E t \in Tasks : BackgroundFn(t)
    \/ \E t \in Tasks : BackgroundRecover(t)
    \/ \E t \in Tasks : BackgroundDone(t)
    \/ WaitGroupWait
    \/ WaitGroupReturns

SpecBackground == InitBackground /\ [][NextBackground]_vars

\* the calls of the data models against a database that may not answer
NextDeadline ==
    \/ StoreCall
    \/ StoreAnswers
    \/ SecondPasses
    \/ DeadlineExceeded
    \/ StoreCallEnds

SpecDeadline == Init /\ [][NextDeadline]_vars

(***************************************************************************)
(* Properties of the update protocol.                                      *)
(***************************************************************************)
\* the row a Movie was read from
RowOf(m) ==
    [title |-> m.title, year |-> m.year, runtime |-> m.runtime,
     genres |-> m.genres, version |-> m.version]

\* the last handler called Movies.Update
UpdateCalled == last.op = "update" /\ last.stmts > 0

\* the row the last Update call named was stored with the version it expected
LastMatched == last.pre # NoRow /\ last.pre.version = last.read.version

\* how often v occurs in the sequence q
Count(q, v) == Cardinality({i \in 1 .. Len(q) : q[i] = v})

C2_OneWinnerPerVersion ==
    /\ \A id \in IDs : \A v \in 1 .. MaxVersion : Count(committed[id], v) <= 1
    /\ UpdateCalled /\ last.err = NoErr =>
         /\ Count(committed[last.read.id], last.read.version) = 1
         /\ last.post.version = last.read.version + 1
    /\ UpdateCalled /\ last.err # ErrStore /\ last.pre # NoRow =>
         /\ Count(committed[last.read.id], last.read.version) = 1
         /\ last.err \in {NoErr, ErrEditConflict}

\* two requests read version 1; one took the row to 2, a later one from 2 to
\* 3, and the other one, still expecting 1, got the edit conflict
C2_Witness ==
    /\ UpdateCalled
    /\ last.err = ErrEditConflict
    /\ last.read.version = 1
    /\ committed[last.read.id] = <<1, 2>>

\* C3: a stored row's version is 1 plus the number of updates of the row
\* that returned nil, whatever else was called.
C3_VersionCountsUpdates ==
    \A id \in IDs :
        movies[id] # NoRow =>
            movies[id].version = InitialVersion + Len(committed[id])

\* a row at version 3 after two updates, and a failed Update left it there
C3_Witness ==
    /\ UpdateCalled
    /\ last.err = ErrStore
    /\ movies[last.read.id] # NoRow
    /\ movies[last.read.id].version = 3

\* C4: an update that commits was computed from the row that was stored
\* right before the commit.
C4_NoLostUpdate ==
    UpdateCalled /\ last.tableChanged => RowOf(last.read) = last.pre

\* an update committed on a row another request had changed before
C4_Witness ==
    /\ UpdateCalled
    /\ last.tableChanged
    /\ last.read.version = 2
    /\ last.post.title # last.pre.title

\* C5: an Update whose statement matches no row returns ErrEditConflict and
\* leaves the table alone; it issues one statement.
C5_ConflictWithoutRetry ==
    UpdateCalled =>
        /\ last.stmts = 1
        /\ last.err # ErrStore /\ ~LastMatched =>
             /\ last.err = ErrEditConflict
             /\ ~last.tableChanged
             /\ last.post = last.pre

\* the row was deleted between Get and Update
C5_Witness ==
    /\ UpdateCalled
    /\ last.err = ErrEditConflict
    /\ last.pre = NoRow

FullBucket == LimiterBurst * TicksPerToken

\* connection c is between mu.Lock() and mu.Unlock()
InCritical(c) ==
    cpc[c] \in {"lookup", "seen", "allow", "unlockNext", "unlockDenied"}

\* C7: of the requests of one key that reach Allow at the instant its entry
\* is created, the first LimiterBurst are admitted and every further one is
\* denied; after LimiterBurst admissions at that instant none is admitted
\* before 1/rps seconds have passed, and at 1/rps seconds exactly one is.
C7_BurstThenOnePerInterval ==
    [][\A c \in Conns :
         cpc[c] = "allow" /\ cpc'[c] \in {"unlockNext", "unlockDenied"}
                          /\ hist[cip[c]].born # ZeroTime =>
            LET h == hist[cip[c]]
                admitted == cpc'[c] = "unlockNext"
            IN /\ now = h.born => (admitted <=> h.atBorn < LimiterBurst)
               /\ h.atBorn = LimiterBurst /\ now < h.born + TicksPerToken =>
                    ~admitted
               /\ h.atBorn = LimiterBurst /\ now = h.born + TicksPerToken =>
                    (admitted <=> h.admits = LimiterBurst)]_vars

\* LimiterBurst admissions at one instant, one more 1/rps seconds later, and
\* the request after that one denied at the same instant
C7_Witness ==
    \E c \in Conns :
        /\ cpc[c] = "unlockDenied"
        /\ hist[cip[c]].atBorn = LimiterBurst
        /\ hist[cip[c]].admits = LimiterBurst + 1
        /\ now = hist[cip[c]].born + TicksPerToken

\* C8: when the sweep has visited every key, no entry is left that was last
\* seen more than IdleMinutes before the sweep began; an evicted key has no
\* entry until its next request, and that request finds a full bucket.
C8_IdleEntryEvicted ==
    /\ swpc = "scan" /\ todo = {} =>
         \A ip \in DOMAIN clients :
             sweepStart - clients[ip].lastSeen <= IdleMinutes * Minute
    /\ \A ip \in IPs : hist[ip].evicted = "evicted" => ip \notin DOMAIN clients
    /\ \A c \in Conns :
         cpc[c] = "seen" /\ hist[cip[c]].evicted = "recreated"
                         /\ hist[cip[c]].born = now
                         /\ hist[cip[c]].admits = 0 =>
            /\ cip[c] \in DOMAIN clients
            /\ LimiterTokensAt(clients[cip[c]].limiter, now) = FullBucket

\* the first request of a key after its eviction has been admitted
C8_Witness ==
    \E c \in Conns :
        /\ cpc[c] = "unlockNext"
        /\ hist[cip[c]].evicted = "recreated"
        /\ hist[cip[c]].born = now
        /\ hist[cip[c]].atBorn = 1

\* C9: at most one goroutine is between mu.Lock() and mu.Unlock(), and a
\* request past the lookup works on an entry that is in the map.
C9_MutualExclusion ==
    /\ Cardinality({c \in Conns : InCritical(c)})
         + (IF swpc = "scan" THEN 1 ELSE 0) <= 1
    /\ \A c \in Conns : cpc[c] \in {"seen", "allow"} => cip[c] \in DOMAIN clients
    /\ out # "panic"

\* one request is about to call Allow while the other request and the sweep
\* goroutine wait for the mutex
C9_Witness ==
    /\ cpc["c1"] = "allow"
    /\ cpc["c2"] = "lock"
    /\ swpc = "lock"

\* C11: a request that Allow denies is answered 429 and goes nowhere else:
\* it is not passed on and Allow is not called for it again; with the
\* limiter enabled a request is passed on only after Allow admitted it.
C11_DeniedIsAnswered429 ==
    [][\A c \in Conns :
         /\ cpc[c] = "allow" /\ cpc'[c] = "unlockDenied" =>
              LimiterTokensAt(clients[cip[c]].limiter, now) < TicksPerToken
         /\ cpc[c] = "allow" /\ cpc'[c] = "unlockNext" =>
              LimiterTokensAt(clients[cip[c]].limiter, now) >= TicksPerToken
         /\ cpc[c] = "unlockDenied" =>
              cpc'[c] \in {"unlockDenied", "denied", "idle"}
         /\ cpc[c] = "denied" => cpc'[c] \in {"denied", "idle"}
         /\ cpc[c] = "denied" /\ cpc'[c] = "idle" /\ mainpc' # "returned" =>
              out' = "429"
         /\ cpc'[c] = "unlockNext" => cpc[c] \in {"allow", "unlockNext"}
         /\ cpc'[c] = "next" => cpc[c] \in {"unlockNext", "next"}
         /\ enabled /\ cpc[c] # "idle" /\ cpc'[c] = "idle" /\ out' = "next" =>
              cpc[c] = "next"]_vars

\* a denied request has been answered 429 while the other request, admitted, is
\* about to be passed on
C11_Witness ==
    /\ out = "429"
    /\ cpc["c1"] = "idle"
    /\ cpc["c2"] = "next"

\* the key of the request that connection c carries in this step
StepKey(c) == IF cpc[c] = "idle" THEN cip'[c] ELSE cip[c]

C13_DisabledPassesEverything ==
    ~enabled =>
        /\ clients = EmptyMap
        /\ out \in {"none", "next"}
        /\ \A c \in Conns : cpc[c] = "idle"
        /\ mu \in {Unlocked, Sweeper}

\* with the limiter disabled a request has been passed on, minutes after
\* the start
C13_Witness ==
    /\ ~enabled
    /\ out = "next"
    /\ now >= Minute

(***************************************************************************)
(* Properties of the authentication tokens.                                *)
(***************************************************************************)
\* the Authorization header that presents the plaintext w as a bearer token
BearerHeader(w) == <<Bearer, Space, w>>

\* the last step was a request through authenticate whose lookup, if it made
\* one, reached the database
Authenticated == tlast.op = "authenticate" /\ tlast.err = NoErr

\* the last request presented the token New returned right before it
PresentsFresh ==
    /\ Authenticated
    /\ tlast.fresh.token # NoToken
    /\ tlast.h = BearerHeader(tlast.fresh.token.plaintext)

\* C14: a request that presents the plaintext New returned right before it,
\* with neither rand.Read nor the database failing, passes authenticate as
\* the user of the token when the token's scope is the authentication scope,
\* and gets the invalid-token response when it is another scope.
C14_IssueThenAuthenticate ==
    PresentsFresh /\ tlast.fresh.ok =>
        IF tlast.fresh.token.scope = ScopeAuthentication
        THEN tlast.resp = CallNext /\ tlast.user = tlast.fresh.token.user_id
        ELSE tlast.resp = InvalidToken

\* the stored rows whose hash is the hash of the token the last request
\* presented
RowsPresented == {r \in tdb[LookupTable] : r.hash = Sha256(BearerToken(tlast.h))}

\* the last request carried an Authorization header of the form
\* "Bearer <token>" with a token of TokenLength characters
WellFormed ==
    /\ Len(SplitSpace(tlast.h, EmptyWord)) = 2
    /\ SplitSpace(tlast.h, EmptyWord)[1] = Bearer
    /\ BearerToken(tlast.h).len = TokenLength

\* C15: a request with an Authorization header gets the one invalid-token
\* response whenever the header is malformed, the token matches no stored
\* hash, or every row it matches is expired or of another scope; the user
\* of the request is not set.
C15_UniformInvalidToken ==
    Authenticated /\ tlast.h # <<>> =>
        \/ /\ WellFormed
           /\ \E r \in RowsPresented :
                 r.scope = ScopeAuthentication /\ r.expiry > clock
        \/ tlast.resp = InvalidToken /\ tlast.user = AnonymousUser

\* an unexpired row of the activation scope matched the presented token and
\* the answer was the invalid-token response
C15_Witness ==
    /\ Authenticated
    /\ WellFormed
    /\ \E r \in RowsPresented : r.scope = ScopeActivation /\ r.expiry > clock
    /\ tlast.resp = InvalidToken

\* C16: a request passes authenticate as a user only through a stored row
\* of that user whose expiry is later than now; from the instant of its
\* expiry on the token of a row gets the invalid-token response, as a token
\* without a row does, and the row stays in the table.
C16_ExpiredIsInvalid ==
    Authenticated /\ tlast.h # <<>> =>
        /\ tlast.resp = CallNext =>
              \E r \in RowsPresented :
                  r.expiry > clock /\ r.user_id = tlast.user
        /\ WellFormed /\ (\A r \in RowsPresented : r.expiry <= clock) =>
              /\ tlast.resp = InvalidToken
              /\ tdb = tlast.pre

\* a stored token of the authentication scope that was valid at instant 1
\* is refused at the instant of its expiry
C16_Witness ==
    /\ Authenticated
    /\ \E r \in RowsPresented :
          r.scope = ScopeAuthentication /\ r.expiry = clock /\ r.expiry > 1
    /\ tlast.resp = InvalidToken

\* C17: a token whose row a call of DeleteAllForUser named, made while the
\* database connection worked, does not pass authenticate afterwards.
C17_DeletedTokensFail ==
    Authenticated /\ WellFormed /\ Sha256(BearerToken(tlast.h)) \in revoked =>
        tlast.resp # CallNext

\* C18: a request whose Authorization header is present and is not "Bearer"
\* and one token of TokenLength characters gets the invalid-token response
\* without a lookup in the database and without a call of the next handler;
\* a token of TokenLength characters is looked up, whatever its characters.
C18_MalformedRejectedBeforeLookup ==
    tlast.op = "authenticate" /\ tlast.h # <<>> =>
        IF WellFormed
        THEN tlast.lookups = 1
        ELSE tlast.lookups = 0 /\ tlast.resp = InvalidToken

\* a token of the wrong length was refused while the database was down
C18_Witness ==
    /\ tlast.op = "authenticate"
    /\ tlast.h = BearerHeader(ShortWord)
    /\ tlast.err = ErrStore
    /\ tlast.lookups = 0
    /\ tlast.resp = InvalidToken

\* C18 as the specification states it: a token with characters outside the
\* alphabet of the encoding is refused without a lookup as well.
C18_CharsetCheckedBeforeLookup ==
    tlast.op = "authenticate" /\ tlast.h # <<>>
        /\ (~WellFormed \/ ~BearerToken(tlast.h).base32) =>
            tlast.lookups = 0 /\ tlast.resp = InvalidToken

\* the rows of all relations of the database
AllRows == UNION {tdb[tb] : tb \in DOMAIN tdb}

\* C19: every row the database holds has the columns hash, user_id, expiry
\* and scope and nothing else, its hash is the SHA-256 digest of a token text
\* and no column holds a token text; a row that New adds carries the digest
\* of the plaintext that this call of New returns.
C19_OnlyHashesStored ==
    /\ [](\A r \in AllRows :
            /\ DOMAIN r = {"hash", "user_id", "expiry", "scope"}
            /\ r.hash \in {Sha256(w) : w \in RandWords}
            /\ r.hash \notin TokenWords
            /\ r.user_id \in UserIDs
            /\ r.expiry \in 1 .. MaxClock + 1
            /\ r.scope \in Scopes)
    /\ [][\A tb \in DOMAIN tdb : \A r \in tdb'[tb] \ tdb[tb] :
            /\ tlast'.op = "new"
            /\ r.hash = Sha256(fresh'.token.plaintext)]_vars

\* New has stored a row and returned the token with its plaintext
C19_Witness ==
    /\ tlast.op = "new"
    /\ tlast.err = NoErr
    /\ fresh.token.plaintext \in RandWords
    /\ \E r \in AllRows \ UNION {tlast.pre[tb] : tb \in DOMAIN tlast.pre} :
          r.hash = Sha256(fresh.token.plaintext)

\* the row of the arguments of the last call of New and the plaintext it
\* returned
RowOfLastNew ==
    [hash |-> Sha256(tlast.token.plaintext), user_id |-> tlast.userID,
     expiry |-> clock + tlast.ttl, scope |-> tlast.scope]

ReachedRoute ==
    /\ glast.op = "request"
    /\ glast.fault # "limiter"
    /\ Authenticate(tdb, glast.h, clock, glast.fault # "tokens").resp = CallNext

\* the wrapped handler ran once and the response is its own, or the 500 of
\* recoverPanic if it panicked
HandlerServed ==
    /\ glast.out.calls = 1
    /\ glast.out.resp =
         IF glast.fault = "panic" THEN ServerError ELSE HandlerResponse

\* C21: behind requireAuthenticatedUser, requireActivatedUser or
\* requiredPermission a request of the anonymous user gets the
\* authentication-required response, status 401, and the wrapped handler is
\* not called; behind requireAuthenticatedUser a request of any other user
\* calls the wrapped handler once.
C21_AnonymousIsStopped ==
    ReachedRoute /\ glast.route.gate # "public" =>
        /\ IsAnonymous(glast.user) =>
              /\ glast.out.resp = AuthenticationRequired
              /\ ResponseStatus(glast.out.resp) = StatusUnauthorized
              /\ glast.out.calls = 0
        /\ ~IsAnonymous(glast.user) /\ glast.route.gate = "authenticated" =>
              HandlerServed

\* a request without Authorization header for a route behind
\* requiredPermission was stopped as not authenticated
C21_Witness ==
    /\ ReachedRoute
    /\ glast.h = <<>>
    /\ glast.route.gate = "permission"
    /\ glast.out.resp = AuthenticationRequired
    /\ glast.out.calls = 0

\* the checks that were made on the last request, as a set
ChecksMade == {glast.out.checks[i] : i \in 1 .. Len(glast.out.checks)}

\* check a was made before check b on the last request
CheckedBefore(a, b) ==
    \E i, j \in 1 .. Len(glast.out.checks) :
        i < j /\ glast.out.checks[i] = a /\ glast.out.checks[j] = b

\* C22: behind requireActivatedUser the anonymous check is made before the
\* activation check: a request of the anonymous user gets the
\* authentication-required response and its activation is not looked at; a
\* request of a user that is not activated gets the inactive-account
\* response, status 403, and the wrapped handler is not called; only a
\* request of an activated user calls the wrapped handler.
C22_ActivatedAfterAuthenticated ==
    ReachedRoute /\ glast.route.gate = "activated" =>
        /\ "activated" \in ChecksMade => CheckedBefore("anonymous", "activated")
        /\ IsAnonymous(glast.user) =>
              /\ glast.out.resp = AuthenticationRequired
              /\ "activated" \notin ChecksMade
        /\ ~IsAnonymous(glast.user) /\ ~glast.user.activated =>
              /\ glast.out.resp = InactiveAccount
              /\ ResponseStatus(glast.out.resp) = StatusForbidden
              /\ glast.out.calls = 0
        /\ ~IsAnonymous(glast.user) /\ glast.user.activated => HandlerServed
        /\ glast.out.calls = 1 =>
              ~IsAnonymous(glast.user) /\ glast.user.activated

\* a user with a valid token and without activation was stopped
C22_Witness ==
    /\ ReachedRoute
    /\ glast.route.gate = "activated"
    /\ glast.user \in [id : UserIDs, activated : {FALSE}]
    /\ glast.out.resp = InactiveAccount
    /\ glast.out.calls = 0

\* the last request reached a route behind requiredPermission as an
\* activated user, and the database answered the permission lookup
PermissionAsked ==
    /\ ReachedRoute
    /\ glast.route.gate = "permission"
    /\ ~IsAnonymous(glast.user)
    /\ glast.user.activated
    /\ glast.fault # "permissions"

\* the user of the last request holds the code of its route in the database
HoldsCode ==
    /\ ~IsAnonymous(glast.user)
    /\ glast.route.code \in CodesOf(pdb, glast.user.id)

\* C23: behind requiredPermission(code) a request of an activated user whose
\* stored permissions do not contain code gets the not-permitted response,
\* status 403, and the wrapped handler is not called; one whose stored
\* permissions contain code calls the wrapped handler.
C23_PermissionDecides ==
    PermissionAsked =>
        IF HoldsCode
        THEN HandlerServed
        ELSE /\ glast.out.resp = NotPermitted
             /\ ResponseStatus(glast.out.resp) = StatusForbidden
             /\ glast.out.calls = 0

\* C24: behind requiredPermission(code) the checks are made in the order
\* anonymous, activated, permission; the wrapped handler is called if and
\* only if the user is not anonymous, is activated and holds code; a request
\* that fails a check gets the response of that check, and the later checks,
\* the permission lookup among them, are not made.
C24_GatesInOrder ==
    ReachedRoute /\ glast.route.gate = "permission"
                 /\ glast.fault # "permissions" =>
        /\ "activated" \in ChecksMade => CheckedBefore("anonymous", "activated")
        /\ "permission" \in ChecksMade => CheckedBefore("activated", "permission")
        /\ IsAnonymous(glast.user) =>
              /\ glast.out.resp = AuthenticationRequired
              /\ ChecksMade \cap {"activated", "permission"} = {}
              /\ glast.out.plookups = 0
        /\ ~IsAnonymous(glast.user) /\ ~glast.user.activated =>
              /\ glast.out.resp = InactiveAccount
              /\ "permission" \notin ChecksMade
              /\ glast.out.plookups = 0
        /\ glast.out.calls = 1 <=>
              ~IsAnonymous(glast.user) /\ glast.user.activated /\ HoldsCode

\* C25: the first request after a call of AddForUser that returned nil, made
\* by the user of that call to a route that requires the code of that call,
\* calls the wrapped handler.
C25_GrantTakesEffect ==
    [][/\ glast.op = "grant"
       /\ glast.err = NoErr
       /\ PermissionAsked'
       /\ [user_id |-> glast'.user.id, code |-> glast'.route.code]
              \in glast.granted
       => glast'.out.calls = 1]_vars

\* the last request presented a token that authenticate looks up
TokenAsked ==
    /\ glast.op = "request"
    /\ glast.fault # "limiter"
    /\ BearerToken(glast.h).len = TokenLength

\* C26: a request whose token lookup fails in the database, and a request
\* of an activated user whose permission lookup fails in the database, gets
\* the server-error response, status 500; the wrapped handler is not called
\* and the response is none of the 401 and 403 responses.
C26_StoreFailureIs500 ==
    \/ TokenAsked /\ glast.fault = "tokens"
    \/ /\ ReachedRoute /\ glast.route.gate = "permission"
       /\ ~IsAnonymous(glast.user) /\ glast.user.activated
       /\ glast.fault = "permissions"
    => /\ glast.out.resp = ServerError
       /\ ResponseStatus(glast.out.resp) = StatusInternalServerError
       /\ glast.out.calls = 0

\* the lookup of a stored, valid token failed in the database and the
\* request ended with the server-error response
C26_Witness ==
    /\ TokenAsked
    /\ glast.fault = "tokens"
    /\ glast.h = BearerHeader(Word("A", EncodedLen(RandomBytes), TRUE))
    /\ glast.out.tlookups = 1
    /\ glast.out.resp = ServerError
    /\ glast.out.calls = 0

\* the check at which the last request was stopped, or the last one it passed
LastCheck == glast.out.checks[Len(glast.out.checks)]

C27_DeadlineEndsEveryCall ==
    /\ scall.state = "waiting" => scall.elapsed <= StoreTimeout
    /\ scall.state = "returned" /\ scall.timedOut =>
          /\ scall.err # NoErr
          /\ scall.status # StatusOK

(***************************************************************************)
(* Properties of Permissions.Include.                                      *)
(***************************************************************************)
CodesIn(p) == {p[i] : i \in DOMAIN p}

\* C29: Include(code) answers true exactly when an element of the slice
\* is equal to the code: a wildcard, a resource without action or another
\* action of the same resource in the slice does not make it true, and the
\* empty slice includes no code.
C29_IncludeIsExactMembership ==
    incl.done =>
        /\ incl.result <=> incl.code \in CodesIn(incl.p)
        /\ incl.p = <<>> => ~incl.result

C29_Witness ==
    /\ incl.done
    /\ incl.code = CodeRead
    /\ CodesIn(incl.p) = {<<"movies", "*">>, CodeWrite}
    /\ ~incl.result

\* the steps of connection c between mu.Lock() and the return of mu.Unlock()
HolderStep(c) == RLLookup(c) \/ RLSeen(c) \/ RLAllow(c) \/ RLUnlock(c)

\* connection c runs the next handler or writes the 429 response
Responding(c) == cpc[c] \in {"next", "denied"}

\* C30: on both branches of the rateLimit handler the mutex taken by
\* mu.Lock() is released by exactly one mu.Unlock(): a connection holds the
\* mutex exactly while it is between the two calls, it leaves that section
\* only by releasing the mutex it holds, and it does not hold the mutex
\* while the next handler or the 429 response runs; the holder of the mutex
\* can always take its next step, so that no goroutine waits for ever.
C30_MutexReleasedOnEveryPath ==
    /\ [](/\ \A c \in Conns :
              /\ mu = c <=> InCritical(c)
              /\ Responding(c) => mu # c
              /\ mu = c => ENABLED HolderStep(c)
          /\ mu = Sweeper <=> swpc = "scan"
          /\ mu = Sweeper => ENABLED (SweepVisit \/ SweepUnlock))
    /\ [][\A c \in Conns :
            /\ InCritical(c) /\ ~InCritical(c)' =>
                 mu = c /\ mu' = Unlocked /\ Responding(c)'
            /\ mu = c /\ mu' # c =>
                 cpc[c] \in {"unlockNext", "unlockDenied"} /\ mu' = Unlocked]_vars

\* a denied request writes its 429 response while the other request holds
\* the mutex
C30_Witness ==
    /\ cpc["c1"] = "denied"
    /\ mu = "c2"
    /\ cpc["c2"] = "allow"

\* C31: lastSeen of the key of a request is set to the current time before
\* Allow is consulted, and Allow leaves it as it is whether it admits or
\* denies; lastSeen of an entry changes in no other step; an entry leaves the
\* map only when more than IdleMinutes have passed since its lastSeen, so
\* that no key with an admission check in the last IdleMinutes is evicted.
C31_LastSeenOnEveryCheck ==
    [][/\ \A c \in Conns :
            /\ cpc[c] = "seen" /\ cpc'[c] # "seen" =>
                 /\ cpc'[c] = "allow"
                 /\ clients'[cip[c]].lastSeen = now
            /\ cpc'[c] \in {"unlockNext", "unlockDenied"} /\ cpc'[c] # cpc[c] =>
                 /\ cpc[c] = "allow"
                 /\ clients'[cip[c]].lastSeen = clients[cip[c]].lastSeen
                 /\ clients[cip[c]].lastSeen # ZeroTime
       /\ \A ip \in DOMAIN clients :
            /\ ip \notin DOMAIN clients' =>
                 now - clients[ip].lastSeen > IdleMinutes * Minute
            /\ ip \in DOMAIN clients'
                 /\ clients'[ip].lastSeen # clients[ip].lastSeen =>
                 \E c \in Conns : cip[c] = ip /\ cpc[c] = "seen"
                                              /\ clients'[ip].lastSeen = now]_vars

\* a sweep that began more than IdleMinutes after the start has visited every
\* key and kept the entry of a key whose last request came after the sweep
\* before and found or left the bucket without a token
C31_Witness ==
    /\ swpc = "scan" /\ todo = {}
    /\ sweepStart > IdleMinutes * Minute
    /\ "ip1" \in DOMAIN clients
    /\ hist["ip1"].evicted = "never"
    /\ clients["ip1"].lastSeen > sweepStart - Minute
    /\ LimiterTokensAt(clients["ip1"].limiter, clients["ip1"].lastSeen)
         < TicksPerToken

\* the keys the sweep visits in this step
Visited == todo \ todo'

\* C32: a visit of the sweep deletes the entry of the visited key exactly
\* when more than IdleMinutes have passed since its lastSeen and leaves every
\* other entry, and a kept entry, as it was; entries leave the map in no
\* other step; the sweep visits every key of the map, so that an entry whose
\* idle time exceeded IdleMinutes when the sweep began is gone when the sweep
\* ends.
C32_SweepRemovesExactlyIdle ==
    /\ [](swpc = "scan" =>
            \A ip \in DOMAIN clients :
                sweepStart - clients[ip].lastSeen > IdleMinutes * Minute =>
                    ip \in todo)
    /\ [][/\ swpc = "lock" /\ swpc' = "scan" => todo' = DOMAIN clients
          /\ \A ip \in DOMAIN clients :
               /\ ip \notin DOMAIN clients' =>
                    /\ swpc = "scan" /\ Visited = {ip}
                    /\ now - clients[ip].lastSeen > IdleMinutes * Minute
               /\ ip \in Visited =>
                    (ip \notin DOMAIN clients' <=>
                        now - clients[ip].lastSeen > IdleMinutes * Minute)
               /\ swpc = "scan" /\ ip \in DOMAIN clients' =>
                    clients'[ip] = clients[ip]
          /\ swpc = "scan" => DOMAIN clients' \subseteq DOMAIN clients]_vars

\* the sweep has deleted the entry of one key and kept the entry of the
\* other, last seen exactly IdleMinutes before
C32_Witness ==
    /\ swpc = "scan" /\ todo = {}
    /\ hist["ip1"].evicted = "evicted"
    /\ "ip2" \in DOMAIN clients
    /\ now - clients["ip2"].lastSeen = IdleMinutes * Minute

C34_BadAddressIs500 ==
    /\ [](/\ out = "500" => enabled
          /\ \A c \in Conns : cip[c] # BadAddr
          /\ BadAddr \notin DOMAIN clients
          /\ \A c \in Conns :
               enabled /\ Alive /\ Accepting /\ cpc[c] = "idle" =>
                   ENABLED (RLBegin(c) /\ out' = "500"))
    /\ [][out' = "500" /\ out # "500" =>
            /\ mu' = mu
            /\ clients' = clients
            /\ cpc' = cpc
            /\ hist' = hist]_vars

\* a request is answered 500 while the other request holds the mutex and
\* the entry of its key is in the map
C34_Witness ==
    /\ out = "500"
    /\ cpc["c1"] = "idle"
    /\ cpc["c2"] = "seen"
    /\ mu = "c2"
    /\ clients # EmptyMap

\* the rows that make the token of the last request valid: of the
\* authentication scope and not expired
ValidRows ==
    {r \in RowsPresented : r.scope = ScopeAuthentication /\ r.expiry > clock}

\* C35: a request without Authorization header is passed on as the
\* anonymous user without a lookup, whether the database works or not; a
\* request with a well-formed header whose token has a valid row, the lookup
\* succeeding, is passed on as the user of that row; every other request is
\* answered by authenticate and not passed on; a request that is passed on
\* carries the anonymous user or a user of the store.
C35_AuthenticatePassesOn ==
    tlast.op = "authenticate" =>
        LET valid == WellFormed /\ tlast.err = NoErr /\ ValidRows # {}
        IN /\ tlast.h = <<>> =>
                /\ tlast.resp = CallNext
                /\ tlast.user = AnonymousUser
                /\ tlast.lookups = 0
           /\ tlast.h # <<>> /\ valid =>
                /\ tlast.resp = CallNext
                /\ \E r \in ValidRows : tlast.user = r.user_id
           /\ tlast.h # <<>> /\ ~valid =>
                /\ tlast.resp \in {InvalidToken, ServerError}
                /\ tlast.user = AnonymousUser
           /\ tlast.resp = CallNext =>
                /\ tlast.user \in UserIDs \cup {AnonymousUser}
                /\ tlast.user = AnonymousUser <=> tlast.h = <<>>

\* a request without the header was passed on as the anonymous user while
\* the database was down
C35_Witness ==
    /\ tlast.op = "authenticate"
    /\ tlast.h = <<>>
    /\ tlast.err = ErrStore
    /\ tlast.resp = CallNext
    /\ tdb[LookupTable] # {}

(***************************************************************************)
(* Properties of recoverPanic.                                             *)
(***************************************************************************)
\* the response is the generic 500 with the header Connection: close
GenericServerError ==
    /\ rp.w.status = StatusInternalServerError
    /\ <<"Connection", "close">> \in rp.w.sent
    /\ rp.w.body = <<ServerErrorMessage>>

\* what the handler of the request sent before it returned or panicked
HandlerSent == ServeHTTP(NewWriter, rp.hd).w

C37_ReturnedNilOnlyAfterShutdown ==
    (mainpc = "returned" /\ srvErr = NoErr) => sigpc = "done"

C37_ReturnStep ==
    (mainpc # "returned" /\ mainpc' = "returned") =>
        \/ /\ mainpc = "wait"
           /\ sigpc = "send" /\ sigpc' = "done"
           /\ srvErr' = srvErr
        \/ /\ mainpc = "listen"
           /\ sigpc' = sigpc
           /\ srvErr' = ErrListen

C37_ShutdownStep ==
    (sigpc = "shutdown" /\ sigpc' # "shutdown") =>
        /\ sigpc' = "send"
        /\ srvErr' \in {NoErr, ErrDeadlineExceeded}
        /\ mainpc' = mainpc /\ mainpc # "returned"

C37_ServerReturns ==
    /\ []C37_ReturnedNilOnlyAfterShutdown
    /\ [][C37_ReturnStep /\ C37_ShutdownStep]_vars
    /\ (sigpc # "quit") ~> (mainpc = "returned")

C37_Witness ==
    /\ mainpc = "returned"
    /\ sigpc = "done"
    /\ srvErr = ErrDeadlineExceeded

\* C38: app.background adds one to the counter of the wait group before the
\* goroutine starts and the goroutine takes one off exactly once, when fn
\* has returned or panicked; a panic of fn is recovered and logged and never
\* ends the process; when every task has finished the counter is zero and a
\* Wait on the group returns.
InFlight == {t \in Tasks : bg.task[t].pc \in {"started", "unwinding", "recovered"}}

Recovered ==
    {t \in Tasks : bg.task[t].pc \in {"recovered", "done"} /\ bg.task[t].fn = "panics"}

C38_Counter ==
    /\ bg.wg = Cardinality(InFlight)
    /\ ~bg.crashed
    /\ bg.logged = Cardinality(Recovered)
    /\ InFlight = {} =>
          /\ bg.wg = 0
          /\ bg.wait = "waiting" => ENABLED WaitGroupReturns

C38_CounterStep ==
    /\ bg'.wg > bg.wg =>
          \E t \in Tasks :
             /\ bg.task[t].pc = "none" /\ bg'.task[t].pc = "started"
             /\ bg'.wg = bg.wg + 1
    /\ bg'.wg < bg.wg =>
          \E t \in Tasks :
             /\ bg.task[t].pc = "recovered" /\ bg'.task[t].pc = "done"
             /\ bg'.wg = bg.wg - 1
    /\ \A t \in Tasks : bg.task[t].pc = "done" => bg'.task[t].pc = "done"

C38_BackgroundCounts == []C38_Counter /\ [][C38_CounterStep]_vars

C38_Witness ==
    /\ \A t \in Tasks : bg.task[t].pc = "done"
    /\ \E t \in Tasks : bg.task[t].fn = "panics"
    /\ \E t \in Tasks : bg.task[t].fn = "returns"
    /\ bg.wait = "passed"

\* C39: Delete of a stored row removes that row and returns nil; Delete of
\* an id that is not stored (never inserted, deleted before, below 1)
\* returns ErrRecordNotFound and leaves the table as it is; after a Delete
\* that returned nil Get answers ErrRecordNotFound and an Update with any
\* version read before answers ErrEditConflict and stores no row; Get and
\* Delete of an id below 1 answer ErrRecordNotFound whether or not the
\* database can be reached.
ProbeIDs == (0 - 1) .. (MaxID + 1)

IsStored(tbl, id) == id \in DOMAIN tbl /\ tbl[id] # NoRow

\* the movies a request may hold for id: any contents read at any version
HeldMovies(id) ==
    {[id |-> id, title |-> b.title, year |-> b.year, runtime |-> b.runtime,
      genres |-> b.genres, version |-> v] : b \in CreateInputs, v \in 1 .. MaxVersion}

DeleteStored(id) ==
    LET res == MovieDelete(movies, id, TRUE)
    IN /\ res.err = NoErr
       /\ res.tbl = [i \in DOMAIN movies |-> IF i = id THEN NoRow ELSE movies[i]]
       /\ MovieGet(res.tbl, id, TRUE).err = ErrRecordNotFound
       /\ \A m \in HeldMovies(id) :
             /\ MovieUpdate(res.tbl, m, TRUE).err = ErrEditConflict
             /\ MovieUpdate(res.tbl, m, TRUE).tbl = res.tbl

DeleteNotStored(id) ==
    /\ MovieDelete(movies, id, TRUE).err = ErrRecordNotFound
    /\ MovieDelete(movies, id, TRUE).tbl = movies
    /\ id < 1 =>
          \A dbok \in BOOLEAN :
             /\ MovieDelete(movies, id, dbok).err = ErrRecordNotFound
             /\ MovieDelete(movies, id, dbok).tbl = movies
             /\ MovieGet(movies, id, dbok).err = ErrRecordNotFound

\* the update handler that read a row another request deleted meanwhile
UpdateAfterDelete ==
    (last.op = "update" /\ last.read # NoMovie /\ last.pre = NoRow
        /\ last.err # ErrStore) =>
        /\ last.err = ErrEditConflict
        /\ last.status = StatusConflict
        /\ last.post = NoRow
        /\ ~last.tableChanged

C39_DeleteAndAfter ==
    /\ \A id \in ProbeIDs :
          IF IsStored(movies, id) THEN DeleteStored(id) ELSE DeleteNotStored(id)
    /\ UpdateAfterDelete

\* a row was inserted and deleted; a request that had read it got the 409
C39_Witness ==
    /\ nextID > 1
    /\ \E id \in IDs : id < nextID /\ ~IsStored(movies, id)
    /\ last.op = "update" /\ last.pre = NoRow /\ last.status = StatusConflict

\* C40: in updateMovieHandler a field of title, year, runtime, genres that
\* the body does not carry keeps the value read from the store; an update
\* that succeeds changes the supplied fields and the version of that one row
\* and nothing else; a request that ends with 404, 400, 422, 409 or 500
\* leaves the table as it was.
FieldOf(x, f) ==
    CASE f = "title" -> x.title
      [] f = "year" -> x.year
      [] f = "runtime" -> x.runtime
      [] f = "genres" -> x.genres

UpdateFailures ==
    {StatusNotFound, StatusBadRequest, StatusUnprocessableEntity, StatusConflict,
     StatusInternalServerError}

\* the movie the handler hands to Update, for every body it may be sent
PatchKeepsAbsent(m) ==
    \A body \in UpdateInputs :
       LET m2 == ApplyInput(m, body)
       IN /\ m2.id = m.id
          /\ m2.version = m.version
          /\ \A f \in Fields :
                FieldOf(m2, f) = IF f \in body.has THEN FieldOf(body, f)
                                 ELSE FieldOf(m, f)

C40_HeldMovies ==
    \A r \in Reqs : pc[r] = "got" => PatchKeepsAbsent(movie[r])

\* the step of the update handler that ends the request of r
C40_CommitFrame(r) ==
    LET id == movie[r].id
    IN /\ last'.status = StatusOK
       /\ DOMAIN movies' = DOMAIN movies
       /\ \A i \in DOMAIN movies : i # id => movies'[i] = movies[i]
       /\ movies[id] # NoRow
       /\ movies'[id].version = movie[r].version + 1
       /\ \E body \in UpdateInputs :
             \A f \in Fields :
                FieldOf(movies'[id], f) = IF f \in body.has THEN FieldOf(body, f)
                                          ELSE FieldOf(movies[id], f)

C40_UpdateStep ==
    last'.op = "update" =>
       /\ last'.status \in UpdateFailures \cup {StatusOK}
       /\ last'.status \in UpdateFailures => movies' = movies
       /\ movies' # movies =>
             \E r \in Reqs : pc[r] = "got" /\ pc'[r] = "idle" /\ C40_CommitFrame(r)

C40_PatchFrame == []C40_HeldMovies /\ [][C40_UpdateStep]_vars

\* a PATCH that carried the title alone was applied to a stored row
C40_Witness ==
    /\ last.op = "update" /\ last.status = StatusOK
    /\ last.post.title # last.read.title
    /\ last.post.year = last.read.year
    /\ last.post.version = last.read.version + 1

\* C10: when server() has returned after a graceful shutdown, the sweep
\* goroutine has returned.
C10_SweepEndsWithShutdown ==
    mainpc = "returned" /\ sigpc = "done" => swpc = "done"

====
